---- MODULE Spec2Model ----
(***************************************************************************)
(* Request-authentication pipeline of omnium: the session resolver         *)
(* (session::resolve, security::decorate), the access enforcer             *)
(* (session::authorize, security::authenticate) and the response rendering *)
(* of api::response, as a state machine over one request at a time.        *)
(*                                                                         *)
(* Option<T> is a sequence of length 0 (None) or 1 (Some(v)).              *)
(* Result<T, E> is a record tagged "Ok" or "Err".                          *)
(* A string that the code inspects is a sequence of symbols; a token is    *)
(* one symbol whose signed content TokenData gives.                        *)
(***************************************************************************)
EXTENDS Integers, Sequences, FiniteSets, TLC

\* ------------------------------------------------------------ bounds
\* The verifier's clock, seconds since the epoch.
Now == 1000
\* Length of the longest pipeline (layers of one route).
MaxLayers == 4

\* ------------------------------------------------------------ values
None == <<>>
Some(v) == <<v>>
IsSome(o) == Len(o) = 1
Unwrap(o) == o[1]

Ok(v) == [tag |-> "Ok", val |-> v]
Err(e) == [tag |-> "Err", err |-> e]
IsOk(r) == r.tag = "Ok"

Accounts == {"acct1", "acct2"}
Subjects == {"u1", "u2"}

\* session.rs: pub const SESSION_CLAIMS_TYPE
SESSION_CLAIMS_TYPE == "session"
ClaimTypes == {SESSION_CLAIMS_TYPE, "refresh"}

\* jsonwebtoken's Validation::new sets the default leeway of 60 seconds.
Leeway == 60

\* ------------------------------------------------------------ responses
OK == 200
UNAUTHORIZED == 401
INTERNAL_SERVER_ERROR == 500
IM_A_TEAPOT == 418

\* StatusCode::canonical_reason, as used by JsonStatus::of.
canonical_reason(code) ==
    CASE code = 200 -> Some("OK")
      [] code = 401 -> Some("Unauthorized")
      [] code = 500 -> Some("Internal Server Error")
      [] code = 418 -> Some("I'm a teapot")
      [] OTHER -> None

\* JsonStatus::of(code, detail)
JsonStatus_of(code, detail) ==
    [reason |-> canonical_reason(code), detail |-> detail]

\* JsonResponse::of_status(code)
of_status(code) ==
    [headers |-> <<>>, code |-> code, body |-> JsonStatus_of(code, None)]

\* JsonResponse::with_detail(detail)
with_detail(r, detail) ==
    [r EXCEPT !.body = JsonStatus_of(r.code, Some(detail))]

\* JsonResponse::with_status(code): the code is replaced, the body is kept.
with_status(r, code) == [r EXCEPT !.code = code]

\* JsonResponse::with_headers(headers): the header map is replaced.
with_headers(r, headers) == [r EXCEPT !.headers = headers]

\* JsonResponse::append_header(key, value)
append_header(r, key, value) == [r EXCEPT !.headers = Append(@, <<key, value>>)]

\* serde's serialisation of JsonStatus: the fields in declaration order, a
\* None rendered as null (the empty option).
Json(body) ==
    [json |-> TRUE,
     fields |-> << <<"reason", body.reason>>, <<"detail", body.detail>> >>]

\* A plain-text body, as the handlers of the tests return.
Text(parts) ==
    [json |-> FALSE, fields |-> << <<"text", parts>> >>]

\* impl IntoResponse for JsonResponse<T>
JsonResponse_into_response(r) ==
    [status |-> r.code, headers |-> r.headers, body |-> Json(r.body)]

\* An anyhow::Error: either a boxed JsonResponse<JsonStatus> (what
\* JsonResponse::anyhow and `.into()` box) or any other error.
ErrJsonResponse(r) == [type |-> "JsonResponse<JsonStatus>", payload |-> Some(r)]
ErrOther(msg) == [type |-> msg, payload |-> None]

\* JsonResponse::of_internal_err(err)
of_internal_err(err) == of_status(INTERNAL_SERVER_ERROR)

\* Mutant of ResponseError::into_response: no downcast, every error is internal.
ResponseError_into_response_no_downcast(e) ==
    JsonResponse_into_response(of_internal_err(e))

\* Mutant of ResponseError::into_response: the text of an internal error is
\* put into the detail of the 500.
ResponseError_into_response_leaks(e) ==
    IF e.type = "JsonResponse<JsonStatus>"
    THEN JsonResponse_into_response(Unwrap(e.payload))
    ELSE JsonResponse_into_response(with_detail(of_internal_err(e), e.type))

\* Mutant of ResponseError::into_response: the downcast error keeps its code
\* but its body is rebuilt from the code alone.
ResponseError_into_response_drops_detail(e) ==
    IF e.type = "JsonResponse<JsonStatus>"
    THEN JsonResponse_into_response(of_status(Unwrap(e.payload).code))
    ELSE JsonResponse_into_response(of_internal_err(e))

\* impl IntoResponse for ResponseError: downcast to JsonResponse<JsonStatus>.
ResponseError_into_response(e) ==
    IF e.type = "JsonResponse<JsonStatus>"
    THEN JsonResponse_into_response(Unwrap(e.payload))
    ELSE JsonResponse_into_response(of_internal_err(e))

\* axum's IntoResponse for Result<Response, ResponseError>, applied by
\* from_fn to what a middleware returns.
Result_into_response(r) ==
    IF IsOk(r) THEN r.val ELSE ResponseError_into_response(r.err)

\* ------------------------------------------------------------ credentials
BearerPrefix == <<"B", "e", "a", "r", "e", "r", " ">>
LowerPrefix == <<"b", "e", "a", "r", "e", "r", " ">>
\* A byte outside visible ASCII, on which HeaderValue::to_str fails.
NonAscii == "\\xe9"

\* What each token symbol carries: whether it parses as a three-part signed
\* token, the key that signed it, and its claims.
\* The `key` of a token is the secret under which its HS512 signature
\* verifies for the claims it now carries. A token whose claims or signature
\* were altered after signing (tok.altered: tok.u1 with the subject changed)
\* has a signature that verifies under no secret.
NoKey == "none"
TokenData ==
    [t \in {"tok.u1", "tok.u2", "tok.refresh", "tok.expired", "tok.late", "tok.forged",
            "tok.altered", "tok.junk"} |->
        [wellFormed |-> t # "tok.junk",
         key |-> IF t = "tok.forged" THEN "k2"
                 ELSE IF t = "tok.altered" THEN NoKey ELSE "k1",
         sub |-> IF t \in {"tok.u2", "tok.altered"} THEN Some("u2") ELSE Some("u1"),
         exp |-> IF t = "tok.expired" THEN Some(Now - 120)
                 ELSE IF t = "tok.late" THEN Some(Now - 45)
                 ELSE Some(Now + 60),
         omn_cl_typ |-> IF t = "tok.refresh" THEN Some("refresh")
                                             ELSE Some(SESSION_CLAIMS_TYPE)]]
Tokens == DOMAIN TokenData

\* str::strip_prefix
strip_prefix(s, prefix) ==
    IF Len(s) >= Len(prefix) /\ SubSeq(s, 1, Len(prefix)) = prefix
    THEN Some(SubSeq(s, Len(prefix) + 1, Len(s)))
    ELSE None

\* HeaderValue::to_str: None unless every byte is visible ASCII.
to_str(h) ==
    IF \A i \in 1..Len(h) : h[i] # NonAscii THEN Some(h) ELSE None

\* Cookie::value_trimmed: surrounding double quotes removed.
value_trimmed(v) ==
    IF Len(v) >= 2 /\ v[1] = "\"" /\ v[Len(v)] = "\""
    THEN SubSeq(v, 2, Len(v) - 1)
    ELSE v

\* Mutant of from_authorization_header: a header without the prefix is taken
\* whole as the credential.
from_authorization_header_lenient(req) ==
    IF ~IsSome(req.authorization) THEN None
    ELSE LET str == to_str(Unwrap(req.authorization)) IN
         IF ~IsSome(str) THEN None
         ELSE IF IsSome(strip_prefix(Unwrap(str), BearerPrefix))
              THEN strip_prefix(Unwrap(str), BearerPrefix)
              ELSE str

\* Mutant of from_authorization_header: the prefix is matched without regard
\* to case.
from_authorization_header_any_case(req) ==
    IF ~IsSome(req.authorization) THEN None
    ELSE LET str == to_str(Unwrap(req.authorization)) IN
         IF ~IsSome(str) THEN None
         ELSE IF IsSome(strip_prefix(Unwrap(str), LowerPrefix))
              THEN strip_prefix(Unwrap(str), LowerPrefix)
              ELSE strip_prefix(Unwrap(str), BearerPrefix)

\* Credential::from_authorization_header
from_authorization_header(req) ==
    IF ~IsSome(req.authorization) THEN None
    ELSE LET str == to_str(Unwrap(req.authorization)) IN
         IF ~IsSome(str) THEN None
         ELSE strip_prefix(Unwrap(str), BearerPrefix)

\* Mutant of from_cookie: a `Bearer ` prefix is removed, as it is from the
\* authorization header.
from_cookie_strips_bearer(req) ==
    IF ~IsSome(req.cookie) THEN None
    ELSE LET v == value_trimmed(Unwrap(req.cookie)) IN
         IF IsSome(strip_prefix(v, BearerPrefix))
         THEN strip_prefix(v, BearerPrefix)
         ELSE Some(v)

\* Credential::from_cookie
from_cookie(req) ==
    IF ~IsSome(req.cookie) THEN None
    ELSE Some(value_trimmed(Unwrap(req.cookie)))

\* SessionManager::extract_credential, as the embedding application may
\* implement it from the two built-in strategies.
Strategies == {"header", "cookie", "header_then_cookie"}
extract_credential(strat, req) ==
    CASE strat = "header" -> from_authorization_header(req)
      [] strat = "cookie" -> from_cookie(req)
      [] OTHER -> IF IsSome(from_authorization_header(req))
                  THEN from_authorization_header(req)
                  ELSE from_cookie(req)

\* ------------------------------------------------------------ claims
\* Mutant of decode_claims: no leeway is granted on the expiry.
decode_claims_no_leeway(token, key) ==
    IF Len(token) # 1 \/ token[1] \notin Tokens THEN Err(ErrOther("InvalidToken"))
    ELSE LET d == TokenData[token[1]] IN
         IF ~d.wellFormed THEN Err(ErrOther("InvalidToken"))
         ELSE IF d.key # key THEN Err(ErrOther("InvalidSignature"))
         ELSE IF ~IsSome(d.sub) \/ ~IsSome(d.exp) \/ ~IsSome(d.omn_cl_typ)
              THEN Err(ErrOther("MissingRequiredClaim"))
         ELSE IF Unwrap(d.exp) < Now THEN Err(ErrOther("ExpiredSignature"))
         ELSE Ok([sub |-> Unwrap(d.sub), exp |-> Unwrap(d.exp),
                  omn_cl_typ |-> Unwrap(d.omn_cl_typ)])

\* Mutant of decode: the expiry is not looked at.
decode_no_expiry(d, key) ==
    IF ~d.wellFormed THEN Err(ErrOther("InvalidToken"))
    ELSE IF d.key # key THEN Err(ErrOther("InvalidSignature"))
    ELSE IF ~IsSome(d.sub) \/ ~IsSome(d.exp) \/ ~IsSome(d.omn_cl_typ)
         THEN Err(ErrOther("MissingRequiredClaim"))
    ELSE Ok([sub |-> Unwrap(d.sub), exp |-> Unwrap(d.exp),
             omn_cl_typ |-> Unwrap(d.omn_cl_typ)])

\* Mutant of decode: a token without `sub` decodes, to the empty subject.
decode_sub_optional(d, key) ==
    IF ~d.wellFormed THEN Err(ErrOther("InvalidToken"))
    ELSE IF d.key # key THEN Err(ErrOther("InvalidSignature"))
    ELSE IF ~IsSome(d.exp) \/ ~IsSome(d.omn_cl_typ)
         THEN Err(ErrOther("MissingRequiredClaim"))
    ELSE IF Unwrap(d.exp) < Now - Leeway THEN Err(ErrOther("ExpiredSignature"))
    ELSE Ok([sub |-> IF IsSome(d.sub) THEN Unwrap(d.sub) ELSE "",
             exp |-> Unwrap(d.exp),
             omn_cl_typ |-> Unwrap(d.omn_cl_typ)])

\* Mutant of decode_at: the signature is not verified.
decode_at_unverified(d, key, now) ==
    IF ~d.wellFormed THEN Err(ErrOther("InvalidToken"))
    ELSE IF ~IsSome(d.sub) \/ ~IsSome(d.exp) \/ ~IsSome(d.omn_cl_typ)
         THEN Err(ErrOther("MissingRequiredClaim"))
    ELSE IF Unwrap(d.exp) < now - Leeway THEN Err(ErrOther("ExpiredSignature"))
    ELSE Ok([sub |-> Unwrap(d.sub), exp |-> Unwrap(d.exp),
             omn_cl_typ |-> Unwrap(d.omn_cl_typ)])

\* jsonwebtoken's decode::<SessionClaims> under the validation decode_claims
\* configures, on a token of content d: the three parts, the signature,
\* the fields of SessionClaims with the required `sub` and `exp`, and the
\* expiry with the leeway. Every failure is an Err.
decode_at(d, key, now) ==
    IF ~d.wellFormed THEN Err(ErrOther("InvalidToken"))
    ELSE IF d.key # key THEN Err(ErrOther("InvalidSignature"))
    ELSE IF ~IsSome(d.sub) \/ ~IsSome(d.exp) \/ ~IsSome(d.omn_cl_typ)
         THEN Err(ErrOther("MissingRequiredClaim"))
    ELSE IF Unwrap(d.exp) < now - Leeway THEN Err(ErrOther("ExpiredSignature"))
    ELSE Ok([sub |-> Unwrap(d.sub), exp |-> Unwrap(d.exp),
             omn_cl_typ |-> Unwrap(d.omn_cl_typ)])

\* The same at the verifier's clock reading Now.
decode(d, key) == decode_at(d, key, Now)

\* claims::decode_claims, on a credential: a string that is no token of
\* three parts does not decode.
decode_claims(token, key) ==
    IF Len(token) # 1 \/ token[1] \notin Tokens THEN Err(ErrOther("InvalidToken"))
    ELSE decode(TokenData[token[1]], key)

\* ------------------------------------------------------------ expiry
\* Widths are scaled down: Duration's seconds (u64) have SecsBits bits, a
\* second has TicksPerSec sub-second units (for the nanoseconds), and usize
\* has SecsBits bits or one less (for a target narrower than u64).
SecsBits == 4
TicksPerSec == 2
SecsMax == 2 ^ SecsBits - 1

\* `Duration + Duration` beyond u64 seconds: the thread panics.
AddPanic == [tag |-> "Panic", msg |-> "overflow when adding durations"]

\* expires_in(duration) at the clock reading now: duration_since(UNIX_EPOCH)
\* is an Err for a clock before the epoch; Duration's add panics on
\* overflow; as_secs drops the sub-second part; usize::try_from is an Err
\* when the seconds do not fit usize.
expires_in(now, d, usize_bits) ==
    IF now.before_epoch THEN Err(ErrOther("SystemTimeError"))
    ELSE LET secs == now.secs + d.secs + (now.ticks + d.ticks) \div TicksPerSec IN
         IF secs > SecsMax THEN AddPanic
         ELSE IF secs > 2 ^ usize_bits - 1 THEN Err(ErrOther("TryFromIntError"))
         ELSE Ok(secs)

\* jsonwebtoken's encode with HS512: the token carries the claims, signed
\* with the key.
encode_claims(claims, key) ==
    Ok([wellFormed |-> TRUE, key |-> key, sub |-> Some(claims.sub),
        exp |-> Some(claims.exp), omn_cl_typ |-> Some(claims.omn_cl_typ)])

\* Mutant of create_session: the claim type is "refresh".
create_session_refresh(account_id, encoding_key, d, now, bits) ==
    LET e == expires_in(now, d, bits) IN
    IF ~IsOk(e) THEN e
    ELSE encode_claims([sub |-> account_id, exp |-> e.val, omn_cl_typ |-> "refresh"],
                       encoding_key)

\* create_session(account_id, encoding_key, duration) at the clock reading
\* now: an Err of expires_in propagates (`?`), and so does its panic.
create_session(account_id, encoding_key, d, now, bits) ==
    LET e == expires_in(now, d, bits) IN
    IF ~IsOk(e) THEN e
    ELSE encode_claims([sub |-> account_id, exp |-> e.val,
                        omn_cl_typ |-> SESSION_CLAIMS_TYPE],
                       encoding_key)

\* What an implementation of SessionManager::decode_claims (session.rs) may
\* return: it is the embedding application's, so any result.
SessionManager_decode_claims ==
    {Err(ErrOther("InvalidToken"))} \cup
    {Ok([sub |-> s, exp |-> Now + 60, omn_cl_typ |-> t]) :
        s \in Subjects, t \in ClaimTypes}

\* What SessionManager::get_account may return.
SessionManager_get_account ==
    {Err(ErrOther("backend")),
     Err(ErrJsonResponse(of_status(IM_A_TEAPOT))),
     Ok(None)} \cup {Ok(Some(a)) : a \in Accounts}

\* What SessionManager::get_service_secret may return.
SessionManager_get_service_secret ==
    {Ok("k1"), Err(ErrOther("secret store")),
     Err(ErrJsonResponse(of_status(IM_A_TEAPOT)))}

\* What OmniumState::session_secret and OmniumState::user_lookup (authn) may
\* return.
OmniumState_session_secret == {Ok("k1"), Err(ErrOther("secret store"))}
OmniumState_user_lookup ==
    {Err(ErrOther("backend")), Ok(None)} \cup {Ok(Some(a)) : a \in Accounts}

\* ------------------------------------------------------------ state
VARIABLES
    strategy,    \* how the session manager extracts the credential
    request,     \* the request: authorization header, cookie, extensions
    layers,      \* the route's pipeline, outermost first
    pc,          \* where the request's task is
    depth,       \* index in layers of the running stage
    frames,      \* per stage: extensions seen on entry, runs of next, results
    credential,  \* resolver local: the extracted credential
    secret,      \* resolver local: the result of get_service_secret
    decoded,     \* resolver local: the result of decoding the claims
    lookup,      \* resolver local: the result of get_account
    calls,       \* collaborator calls the resolver made, in order
    response,    \* the HTTP response sent to the client
    baseline     \* outcome of the last request that carried no credential

vars == <<strategy, request, layers, pc, depth, frames, credential, secret, decoded,
          lookup, calls, response, baseline>>

\* The state of a run of security/crypto.rs: one call of
\* encrypt_string_aes256_gcm, a payload reaching decrypt_string_aes256_gcm,
\* and that call's outcome.
VARIABLES
    plain_text,      \* encrypt's plain_text, as the bytes of the &str
    enc_secret,      \* encrypt's secret, as bytes
    nonce,           \* the nonce the random source filled in
    encrypted,       \* what encrypt returned
    encrypted_text,  \* decrypt's encrypted_text, as base64 symbols
    dec_secret,      \* decrypt's secret, as bytes
    decrypted,       \* how the call of decrypt ended
    sealed,          \* every (key, nonce, ciphertext and tag) the cipher sealed
    cpc              \* where the run is

cipher_vars == <<plain_text, enc_secret, nonce, encrypted, encrypted_text, dec_secret,
                 decrypted, sealed, cpc>>

\* The state of a call of claims.rs: decode_claims on a token, or expires_in.
VARIABLES
    jwt,             \* decode_claims' token, by its content
    decoding_key,    \* decode_claims' decoding key
    claims_result,   \* what decode_claims returned
    clock,           \* SystemTime::now() at the call of expires_in
    duration,        \* expires_in's duration
    usize_bits,      \* the width of usize on the target
    expiry,          \* how the call of expires_in ended
    account_id,      \* create_session's account_id
    encoding_key,    \* create_session's encoding key
    issued,          \* how the call of create_session ended
    presented_at,    \* the verifier's clock when the issued token is presented
    kpc              \* where the call is

claims_vars == <<jwt, decoding_key, claims_result, clock, duration, usize_bits, expiry,
                 account_id, encoding_key, issued, presented_at, kpc>>

NoToken == [wellFormed |-> FALSE, key |-> "k1", sub |-> None, exp |-> None,
            omn_cl_typ |-> None]
Epoch == [before_epoch |-> FALSE, secs |-> 0, ticks |-> 0]
ZeroDuration == [secs |-> 0, ticks |-> 0]

\* Requests processed concurrently, sharing one session manager.
VARIABLES
    tasks,           \* per request: its task's position, request and locals
    manager          \* the shared session manager: its account store

conc_vars == <<tasks, manager>>

\* A JsonResponse<JsonStatus> under construction.
VARIABLES
    built,           \* the JsonResponse the builder calls have made so far
    ncalls           \* how many builder calls followed of_status

builder_vars == <<built, ncalls>>

\* What lies outside each specification's own variables.
outside_pipeline == <<cipher_vars, claims_vars, conc_vars, builder_vars>>
outside_cipher == <<vars, claims_vars, conc_vars, builder_vars>>
outside_claims == <<vars, cipher_vars, conc_vars, builder_vars>>
outside_conc == <<vars, cipher_vars, claims_vars, builder_vars>>
outside_builder == <<vars, cipher_vars, claims_vars, conc_vars>>

\* No response is under construction.
BuilderOff ==
    /\ built = None
    /\ ncalls = 0

MaxRequests == 2
RequestIds == 1..MaxRequests

\* A task that has no request yet.
IdleTask ==
    [pc |-> "idle", authorization |-> None, credential |-> None, decoded |-> None,
     lookup |-> None, extensions |-> None, nextRuns |-> 0, response |-> None]

\* Account stores a session manager may have: per subject, what get_account
\* returns.
Directories ==
    {[u \in Subjects |-> IF u = "u1" THEN Ok(Some("acct1")) ELSE Ok(Some("acct2"))],
     [u \in Subjects |-> IF u = "u1" THEN Ok(Some("acct2")) ELSE Ok(None)],
     [u \in Subjects |-> IF u = "u1" THEN Err(ErrOther("backend")) ELSE Ok(Some("acct1"))]}

\* No concurrent requests are modelled.
ConcOff ==
    /\ tasks = [r \in RequestIds |-> IdleTask]
    /\ manager = [u \in Subjects |-> Ok(None)]

\* No call of claims.rs is modelled on its own.
ClaimsOff ==
    /\ jwt = NoToken
    /\ decoding_key = "k1"
    /\ claims_result = None
    /\ clock = Epoch
    /\ duration = ZeroDuration
    /\ usize_bits = SecsBits
    /\ expiry = None
    /\ account_id = "u1"
    /\ encoding_key = "k1"
    /\ issued = None
    /\ presented_at = None
    /\ kpc = "off"

\* No run of the cipher is modelled along with the request pipeline.
CipherOff ==
    /\ plain_text = <<>>
    /\ enc_secret = <<>>
    /\ nonce = None
    /\ encrypted = None
    /\ encrypted_text = <<>>
    /\ dec_secret = <<>>
    /\ decrypted = None
    /\ sealed = {}
    /\ cpc = "off"

\* The pipelines: the protected route of the tests (resolver, enforcer,
\* handler), a public route behind the resolver only, and the enforcer
\* without a resolver in front, for session.rs and for security/session.rs.
Layouts ==
    {<<"resolve", "authorize", "handler">>, <<"resolve", "public">>,
     <<"authorize", "handler">>,
     <<"decorate", "authenticate", "handler">>, <<"decorate", "public">>,
     <<"authenticate", "handler">>,
     <<"authn", "user">>,
     <<"json_handler">>,
     <<"upstream", "resolve", "authorize", "handler">>}

Resolvers == {"resolve", "decorate"}
\* What the upstream middleware attaches.
PresetAccounts == {"acct1"}
Enforcers == {"authorize", "authenticate"}

HeaderValues ==
    {None} \cup {Some(BearerPrefix \o <<t>>) : t \in Tokens}
           \cup {Some(<<"tok.u1">>), Some(LowerPrefix \o <<"tok.u1">>),
                 Some(BearerPrefix), Some(BearerPrefix \o <<"tok.u1", NonAscii>>)}
           \cup {Some(<<"tok.late">>), Some(<<"tok.expired">>), Some(<<"tok.refresh">>),
                 Some(<<"tok.forged">>)}

CookieValues ==
    {None, Some(<<"tok.u2">>), Some(<<"\"", "tok.refresh", "\"">>),
     Some(BearerPrefix \o <<"tok.u1">>)}

EmptyFrame == [ext |-> None, nextRuns |-> 0, down |-> None, ret |-> None]

Init ==
    /\ strategy \in Strategies
    /\ request = [authorization |-> None, cookie |-> None, extensions |-> None]
    /\ layers = <<"resolve", "authorize", "handler">>
    /\ pc = "idle"
    /\ depth = 1
    /\ frames = [i \in 1..MaxLayers |-> EmptyFrame]
    /\ credential = None
    /\ secret = None
    /\ decoded = None
    /\ lookup = None
    /\ calls = <<>>
    /\ response = None
    /\ baseline = None
    /\ CipherOff
    /\ ClaimsOff
    /\ ConcOff
    /\ BuilderOff

Running(stage, at) ==
    /\ pc = at
    /\ depth <= Len(layers)
    /\ layers[depth] = stage

\* next.run(request): the stage at depth hands req to the next stage.
RunNext(req) ==
    /\ request' = req
    /\ frames' = [frames EXCEPT ![depth].nextRuns = @ + 1,
                                ![depth + 1].ext = req.extensions]
    /\ depth' = depth + 1
    /\ pc' = "enter"

\* The stage at depth returns result without running next.
Return(result) ==
    /\ frames' = [frames EXCEPT ![depth].ret = Some(result)]
    /\ pc' = "returned"
    /\ UNCHANGED <<request, depth>>

\* `Ok(next.run(request).await)`: next has returned; the stage at depth - 1
\* wraps the response it got and returns it.
ReturnNext ==
    LET got == Result_into_response(Unwrap(frames[depth].ret)) IN
    /\ frames' = [frames EXCEPT ![depth - 1].down = Some(got),
                                ![depth - 1].ret = Some(Ok(got))]
    /\ depth' = depth - 1
    /\ pc' = "returned"
    /\ UNCHANGED request

Returned(stage) ==
    /\ pc = "returned"
    /\ depth > 1
    /\ layers[depth - 1] = stage

Called(fn, arg) == calls' = Append(calls, [fn |-> fn, arg |-> arg])

\* A request arrives from the network: no extension is set yet.
NewRequest ==
    /\ pc = "idle"
    /\ \E l \in Layouts, h \in HeaderValues, c \in CookieValues :
        /\ layers' = l
        /\ request' = [authorization |-> h, cookie |-> c, extensions |-> None]
    /\ pc' = "enter"
    /\ UNCHANGED <<outside_pipeline, strategy, depth, frames, credential, secret, decoded, lookup, calls,
                   response, baseline>>

\* ------------------------------------------------------------ session.rs
\* Mutant of authorize: next is run whether or not an account is attached.
authorize_unchecked ==
    /\ Running("authorize", "enter")
    /\ RunNext(request)
    /\ UNCHANGED <<outside_pipeline, strategy, layers, credential, secret, decoded, lookup, calls,
                   response, baseline>>

\* authorize: the extension check and both of its branches.
authorize ==
    /\ Running("authorize", "enter")
    /\ IF IsSome(request.extensions)
       THEN RunNext(request)
       ELSE Return(Err(ErrJsonResponse(of_status(UNAUTHORIZED))))
    /\ UNCHANGED <<outside_pipeline, strategy, layers, credential, secret, decoded, lookup, calls,
                   response, baseline>>

authorize_return ==
    /\ Returned("authorize")
    /\ ReturnNext
    /\ UNCHANGED <<outside_pipeline, strategy, layers, credential, secret, decoded, lookup, calls,
                   response, baseline>>

\* Mutant of resolve: a request without a credential is rejected.
resolve_extract_rejects ==
    /\ Running("resolve", "enter")
    /\ credential' = extract_credential(strategy, request)
    /\ IF IsSome(credential')
       THEN /\ pc' = "decode_claims"
            /\ Called("decode_claims", "-")
            /\ UNCHANGED <<request, frames, depth>>
       ELSE /\ Return(Err(ErrJsonResponse(of_status(UNAUTHORIZED))))
            /\ UNCHANGED calls
    /\ UNCHANGED <<outside_pipeline, strategy, layers, secret, decoded, lookup, response, baseline>>

\* Mutant of resolve: with a credential the account is looked up at once;
\* the claims are not decoded first.
resolve_extract_lookup_first ==
    /\ Running("resolve", "enter")
    /\ credential' = extract_credential(strategy, request)
    /\ IF IsSome(credential')
       THEN /\ pc' = "get_account"
            /\ Called("get_account", "u1")
            /\ UNCHANGED <<request, frames, depth>>
       ELSE /\ RunNext(request)
            /\ UNCHANGED calls
    /\ UNCHANGED <<outside_pipeline, strategy, layers, secret, decoded, lookup, response, baseline>>

\* Mutant of resolve: without a credential the request is forwarded with its
\* extensions emptied.
resolve_extract_clears_context ==
    /\ Running("resolve", "enter")
    /\ credential' = extract_credential(strategy, request)
    /\ IF IsSome(credential')
       THEN /\ pc' = "decode_claims"
            /\ Called("decode_claims", "-")
            /\ UNCHANGED <<request, frames, depth>>
       ELSE /\ RunNext([request EXCEPT !.extensions = None])
            /\ UNCHANGED calls
    /\ UNCHANGED <<outside_pipeline, strategy, layers, secret, decoded, lookup, response, baseline>>

\* resolve, up to its first await: extract the credential; without one run
\* next, with one call decode_claims.
resolve_extract ==
    /\ Running("resolve", "enter")
    /\ credential' = extract_credential(strategy, request)
    /\ IF IsSome(credential')
       THEN /\ pc' = "decode_claims"
            /\ Called("decode_claims", "-")
            /\ UNCHANGED <<request, frames, depth>>
       ELSE /\ RunNext(request)
            /\ UNCHANGED calls
    /\ UNCHANGED <<outside_pipeline, strategy, layers, secret, decoded, lookup, response, baseline>>

\* Mutant of resolve: get_account is asked for a fixed subject, not the
\* subject of the decoded claims.
resolve_decoded_wrong_subject ==
    /\ Running("resolve", "decode_claims")
    /\ \E result \in SessionManager_decode_claims :
        /\ decoded' = Some(result)
        /\ IF IsOk(result) /\ result.val.omn_cl_typ = SESSION_CLAIMS_TYPE
           THEN /\ pc' = "get_account"
                /\ Called("get_account", "u1")
                /\ UNCHANGED <<request, frames, depth>>
           ELSE /\ RunNext(request)
                /\ UNCHANGED calls
    /\ UNCHANGED <<outside_pipeline, strategy, layers, credential, secret, lookup, response, baseline>>

\* Mutant of resolve: a wrong claim type is rejected by the resolver itself.
resolve_decoded_rejects_type ==
    /\ Running("resolve", "decode_claims")
    /\ \E result \in SessionManager_decode_claims :
        /\ decoded' = Some(result)
        /\ IF IsOk(result) /\ result.val.omn_cl_typ = SESSION_CLAIMS_TYPE
           THEN /\ pc' = "get_account"
                /\ Called("get_account", result.val.sub)
                /\ UNCHANGED <<request, frames, depth>>
           ELSE IF IsOk(result)
                THEN /\ Return(Err(ErrJsonResponse(of_status(UNAUTHORIZED))))
                     /\ UNCHANGED calls
                ELSE /\ RunNext(request)
                     /\ UNCHANGED calls
    /\ UNCHANGED <<outside_pipeline, strategy, layers, credential, secret, lookup, response, baseline>>

\* Mutant of resolve: a failure to decode propagates as an error.
resolve_decoded_propagates ==
    /\ Running("resolve", "decode_claims")
    /\ \E result \in SessionManager_decode_claims :
        /\ decoded' = Some(result)
        /\ IF IsOk(result) /\ result.val.omn_cl_typ = SESSION_CLAIMS_TYPE
           THEN /\ pc' = "get_account"
                /\ Called("get_account", result.val.sub)
                /\ UNCHANGED <<request, frames, depth>>
           ELSE IF IsOk(result)
                THEN /\ RunNext(request)
                     /\ UNCHANGED calls
                ELSE /\ Return(Err(result.err))
                     /\ UNCHANGED calls
    /\ UNCHANGED <<outside_pipeline, strategy, layers, credential, secret, lookup, response, baseline>>

\* Mutant of resolve: the claim type is not checked.
resolve_decoded_any_type ==
    /\ Running("resolve", "decode_claims")
    /\ \E result \in SessionManager_decode_claims :
        /\ decoded' = Some(result)
        /\ IF IsOk(result)
           THEN /\ pc' = "get_account"
                /\ Called("get_account", result.val.sub)
                /\ UNCHANGED <<request, frames, depth>>
           ELSE /\ RunNext(request)
                /\ UNCHANGED calls
    /\ UNCHANGED <<outside_pipeline, strategy, layers, credential, secret, lookup, response, baseline>>

\* Mutant of resolve: the subject of the claims is put into the extensions
\* before get_account is awaited.
resolve_decoded_attaches_early ==
    /\ Running("resolve", "decode_claims")
    /\ \E result \in SessionManager_decode_claims :
        /\ decoded' = Some(result)
        /\ IF IsOk(result) /\ result.val.omn_cl_typ = SESSION_CLAIMS_TYPE
           THEN /\ pc' = "get_account"
                /\ Called("get_account", result.val.sub)
                /\ request' = [request EXCEPT !.extensions = Some(result.val.sub)]
                /\ UNCHANGED <<frames, depth>>
           ELSE /\ RunNext(request)
                /\ UNCHANGED calls
    /\ UNCHANGED <<outside_pipeline, strategy, layers, credential, secret, lookup, response, baseline>>

\* resolve, decode_claims has returned: on Err or on a claim type other than
\* "session" run next, else call get_account with the subject.
resolve_decoded ==
    /\ Running("resolve", "decode_claims")
    /\ \E result \in SessionManager_decode_claims :
        /\ decoded' = Some(result)
        /\ IF IsOk(result) /\ result.val.omn_cl_typ = SESSION_CLAIMS_TYPE
           THEN /\ pc' = "get_account"
                /\ Called("get_account", result.val.sub)
                /\ UNCHANGED <<request, frames, depth>>
           ELSE /\ RunNext(request)
                /\ UNCHANGED calls
    /\ UNCHANGED <<outside_pipeline, strategy, layers, credential, secret, lookup, response, baseline>>

\* Mutant of resolve: a failed lookup is passed through like a missing account.
resolve_lookup_swallows_error ==
    /\ Running("resolve", "get_account")
    /\ \E result \in SessionManager_get_account :
        /\ lookup' = Some(result)
        /\ IF IsOk(result) /\ IsSome(result.val)
           THEN RunNext([request EXCEPT !.extensions = result.val])
           ELSE RunNext(request)
    /\ UNCHANGED <<outside_pipeline, strategy, layers, credential, secret, decoded, calls, response,
                   baseline>>

\* Mutant of resolve: an unknown account is rejected by the resolver itself.
resolve_lookup_rejects_unknown ==
    /\ Running("resolve", "get_account")
    /\ \E result \in SessionManager_get_account :
        /\ lookup' = Some(result)
        /\ IF ~IsOk(result) THEN Return(Err(result.err))
           ELSE IF IsSome(result.val)
                THEN RunNext([request EXCEPT !.extensions = result.val])
                ELSE Return(Err(ErrJsonResponse(of_status(UNAUTHORIZED))))
    /\ UNCHANGED <<outside_pipeline, strategy, layers, credential, secret, decoded, calls, response,
                   baseline>>

\* Mutant of resolve: the account inserted is not the one looked up.
resolve_lookup_other_account ==
    /\ Running("resolve", "get_account")
    /\ \E result \in SessionManager_get_account :
        /\ lookup' = Some(result)
        /\ IF ~IsOk(result) THEN Return(Err(result.err))
           ELSE IF IsSome(result.val)
                THEN RunNext([request EXCEPT !.extensions = Some("acct1")])
                ELSE RunNext(request)
    /\ UNCHANGED <<outside_pipeline, strategy, layers, credential, secret, decoded, calls, response,
                   baseline>>

\* Mutant of resolve: an unknown account is rejected by the resolver with a
\* 401 that says so.
resolve_lookup_reveals_unknown ==
    /\ Running("resolve", "get_account")
    /\ \E result \in SessionManager_get_account :
        /\ lookup' = Some(result)
        /\ IF ~IsOk(result) THEN Return(Err(result.err))
           ELSE IF IsSome(result.val)
                THEN RunNext([request EXCEPT !.extensions = result.val])
                ELSE Return(Err(ErrJsonResponse(
                         with_detail(of_status(UNAUTHORIZED), "unknown account"))))
    /\ UNCHANGED <<outside_pipeline, strategy, layers, credential, secret, decoded, calls, response,
                   baseline>>

\* resolve, get_account has returned: an Err propagates (`?`), None runs
\* next, Some(account) is inserted into the extensions and next is run.
resolve_lookup ==
    /\ Running("resolve", "get_account")
    /\ \E result \in SessionManager_get_account :
        /\ lookup' = Some(result)
        /\ IF ~IsOk(result) THEN Return(Err(result.err))
           ELSE IF IsSome(result.val)
                THEN RunNext([request EXCEPT !.extensions = result.val])
                ELSE RunNext(request)
    /\ UNCHANGED <<outside_pipeline, strategy, layers, credential, secret, decoded, calls, response,
                   baseline>>

resolve_return ==
    /\ Returned("resolve")
    /\ ReturnNext
    /\ UNCHANGED <<outside_pipeline, strategy, layers, credential, secret, decoded, lookup, calls,
                   response, baseline>>

\* ------------------------------------------------------------ security/session.rs
\* authenticate: the enforcer of security/session.rs.
authenticate ==
    /\ Running("authenticate", "enter")
    /\ IF IsSome(request.extensions)
       THEN RunNext(request)
       ELSE Return(Err(ErrJsonResponse(of_status(UNAUTHORIZED))))
    /\ UNCHANGED <<outside_pipeline, strategy, layers, credential, secret, decoded, lookup, calls,
                   response, baseline>>

authenticate_return ==
    /\ Returned("authenticate")
    /\ ReturnNext
    /\ UNCHANGED <<outside_pipeline, strategy, layers, credential, secret, decoded, lookup, calls,
                   response, baseline>>

\* decorate, up to its first await: extract the credential; without one run
\* next, with one ask for the service secret.
decorate_extract ==
    /\ Running("decorate", "enter")
    /\ credential' = extract_credential(strategy, request)
    /\ IF IsSome(credential')
       THEN /\ pc' = "get_service_secret"
            /\ Called("get_service_secret", "-")
            /\ UNCHANGED <<request, frames, depth>>
       ELSE /\ RunNext(request)
            /\ UNCHANGED calls
    /\ UNCHANGED <<outside_pipeline, strategy, layers, secret, decoded, lookup, response, baseline>>

\* Mutant of decorate: a failure of get_service_secret is passed through
\* like a token that does not decode.
decorate_decode_swallows_secret_error ==
    /\ Running("decorate", "get_service_secret")
    /\ \E got \in SessionManager_get_service_secret :
        /\ secret' = Some(got)
        /\ IF ~IsOk(got)
           THEN /\ RunNext(request)
                /\ UNCHANGED <<decoded, calls>>
           ELSE LET result == decode_claims(Unwrap(credential), got.val) IN
                /\ decoded' = Some(result)
                /\ IF IsOk(result) /\ result.val.omn_cl_typ = SESSION_CLAIMS_TYPE
                   THEN /\ pc' = "get_account"
                        /\ Called("get_account", result.val.sub)
                        /\ UNCHANGED <<request, frames, depth>>
                   ELSE /\ RunNext(request)
                        /\ UNCHANGED calls
    /\ UNCHANGED <<outside_pipeline, strategy, layers, credential, lookup, response, baseline>>

\* decorate, get_service_secret has returned: its Err propagates (`?`); with
\* the secret the claims are decoded; on Err or on a claim type other than
\* "session" run next, else call get_account with the subject.
decorate_decode ==
    /\ Running("decorate", "get_service_secret")
    /\ \E got \in SessionManager_get_service_secret :
        /\ secret' = Some(got)
        /\ IF ~IsOk(got)
           THEN /\ Return(Err(got.err))
                /\ UNCHANGED <<decoded, calls>>
           ELSE LET result == decode_claims(Unwrap(credential), got.val) IN
                /\ decoded' = Some(result)
                /\ IF IsOk(result) /\ result.val.omn_cl_typ = SESSION_CLAIMS_TYPE
                   THEN /\ pc' = "get_account"
                        /\ Called("get_account", result.val.sub)
                        /\ UNCHANGED <<request, frames, depth>>
                   ELSE /\ RunNext(request)
                        /\ UNCHANGED calls
    /\ UNCHANGED <<outside_pipeline, strategy, layers, credential, lookup, response, baseline>>

\* Mutant of decorate: an unknown account is rejected by decorate itself.
decorate_lookup_rejects_unknown ==
    /\ Running("decorate", "get_account")
    /\ \E result \in SessionManager_get_account :
        /\ lookup' = Some(result)
        /\ IF ~IsOk(result) THEN Return(Err(result.err))
           ELSE IF IsSome(result.val)
                THEN RunNext([request EXCEPT !.extensions = result.val])
                ELSE Return(Err(ErrJsonResponse(of_status(UNAUTHORIZED))))
    /\ UNCHANGED <<outside_pipeline, strategy, layers, credential, secret, decoded, calls, response,
                   baseline>>

\* decorate, get_account has returned: an Err propagates (`?`), None runs
\* next, Some(account) is inserted into the extensions and next is run.
decorate_lookup ==
    /\ Running("decorate", "get_account")
    /\ \E result \in SessionManager_get_account :
        /\ lookup' = Some(result)
        /\ IF ~IsOk(result) THEN Return(Err(result.err))
           ELSE IF IsSome(result.val)
                THEN RunNext([request EXCEPT !.extensions = result.val])
                ELSE RunNext(request)
    /\ UNCHANGED <<outside_pipeline, strategy, layers, credential, secret, decoded, calls, response,
                   baseline>>

decorate_return ==
    /\ Returned("decorate")
    /\ ReturnNext
    /\ UNCHANGED <<outside_pipeline, strategy, layers, credential, secret, decoded, lookup, calls,
                   response, baseline>>

\* ------------------------------------------------------------ authn/session.rs
\* The 401 every rejection of authn::authenticate returns:
\* `JsonResponse::of_status(StatusCode::UNAUTHORIZED).into()`.
authn_unauthorized == Ok(JsonResponse_into_response(of_status(UNAUTHORIZED)))

\* `?` in authn::authenticate: From<E: Into<anyhow::Error>> for
\* JsonResponse<StatusBody> (api/mod.rs) makes every error the 500 response,
\* which axum renders as the Err of the JsonResult.
JsonResponse_from(err) == ErrJsonResponse(of_status(INTERNAL_SERVER_ERROR))

\* Mutant of authn_credential: the authorization header is looked at first.
authn_credential_header_first(req) ==
    IF IsSome(req.authorization) /\ IsSome(to_str(Unwrap(req.authorization)))
    THEN to_str(Unwrap(req.authorization))
    ELSE IF IsSome(req.cookie) THEN Some(value_trimmed(Unwrap(req.cookie)))
    ELSE None

\* The credential of authn::authenticate: the session cookie's trimmed
\* value, else the whole authorization header if it is visible ASCII.
authn_credential(req) ==
    IF IsSome(req.cookie) THEN Some(value_trimmed(Unwrap(req.cookie)))
    ELSE IF ~IsSome(req.authorization) THEN None
    ELSE to_str(Unwrap(req.authorization))

\* authn::authenticate, up to its first await: without a credential 401,
\* with one ask for the session secret.
authn_extract ==
    /\ Running("authn", "enter")
    /\ credential' = authn_credential(request)
    /\ IF IsSome(credential')
       THEN /\ pc' = "session_secret"
            /\ Called("session_secret", "-")
            /\ UNCHANGED <<request, frames, depth>>
       ELSE /\ Return(authn_unauthorized)
            /\ UNCHANGED calls
    /\ UNCHANGED <<outside_pipeline, strategy, layers, secret, decoded, lookup, response, baseline>>

\* Mutant of authn_decode: the claim type is not looked at.
authn_decode_any_type ==
    /\ Running("authn", "session_secret")
    /\ \E got \in OmniumState_session_secret :
        /\ secret' = Some(got)
        /\ IF ~IsOk(got)
           THEN /\ Return(Err(JsonResponse_from(got.err)))
                /\ UNCHANGED <<decoded, calls>>
           ELSE LET result == decode_claims(Unwrap(credential), got.val) IN
                /\ decoded' = Some(result)
                /\ IF ~IsOk(result)
                   THEN /\ Return(authn_unauthorized)
                        /\ UNCHANGED calls
                   ELSE /\ pc' = "user_lookup"
                        /\ Called("user_lookup", result.val.sub)
                        /\ UNCHANGED <<request, frames, depth>>
    /\ UNCHANGED <<outside_pipeline, strategy, layers, credential, lookup, response, baseline>>

\* authn::authenticate, session_secret has returned: its Err propagates
\* (`?`); a token that does not decode and a claim type other than "session"
\* are answered 401; else user_lookup is called with the subject.
authn_decode ==
    /\ Running("authn", "session_secret")
    /\ \E got \in OmniumState_session_secret :
        /\ secret' = Some(got)
        /\ IF ~IsOk(got)
           THEN /\ Return(Err(JsonResponse_from(got.err)))
                /\ UNCHANGED <<decoded, calls>>
           ELSE LET result == decode_claims(Unwrap(credential), got.val) IN
                /\ decoded' = Some(result)
                /\ IF ~IsOk(result) \/ result.val.omn_cl_typ # SESSION_CLAIMS_TYPE
                   THEN /\ Return(authn_unauthorized)
                        /\ UNCHANGED calls
                   ELSE /\ pc' = "user_lookup"
                        /\ Called("user_lookup", result.val.sub)
                        /\ UNCHANGED <<request, frames, depth>>
    /\ UNCHANGED <<outside_pipeline, strategy, layers, credential, lookup, response, baseline>>

\* authn::authenticate, user_lookup has returned: an Err propagates (`?`),
\* None is answered 401, Some(user) is inserted into the extensions and next
\* is run.
authn_lookup ==
    /\ Running("authn", "user_lookup")
    /\ \E result \in OmniumState_user_lookup :
        /\ lookup' = Some(result)
        /\ IF ~IsOk(result) THEN Return(Err(JsonResponse_from(result.err)))
           ELSE IF IsSome(result.val)
                THEN RunNext([request EXCEPT !.extensions = result.val])
                ELSE Return(authn_unauthorized)
    /\ UNCHANGED <<outside_pipeline, strategy, layers, credential, secret, decoded, calls, response,
                   baseline>>

authn_return ==
    /\ Returned("authn")
    /\ ReturnNext
    /\ UNCHANGED <<outside_pipeline, strategy, layers, credential, secret, decoded, lookup, calls,
                   response, baseline>>

\* ------------------------------------------------------------ upstream
\* A middleware in front of resolve that has put an account into the
\* request's extensions before resolve is entered.
upstream ==
    /\ Running("upstream", "enter")
    /\ \E a \in PresetAccounts : RunNext([request EXCEPT !.extensions = Some(a)])
    /\ UNCHANGED <<outside_pipeline, strategy, layers, credential, secret, decoded, lookup, calls,
                   response, baseline>>

upstream_return ==
    /\ Returned("upstream")
    /\ ReturnNext
    /\ UNCHANGED <<outside_pipeline, strategy, layers, credential, secret, decoded, lookup, calls,
                   response, baseline>>

\* ------------------------------------------------------------ handlers
\* The protected handler of the tests: it extracts Extension<U> and greets
\* the caller; axum rejects the extraction of a missing extension with 500.
handler ==
    /\ Running("handler", "enter")
    /\ Return(Ok(IF IsSome(request.extensions)
                 THEN [status |-> OK, headers |-> <<>>,
                       body |-> Text(<<"Hello, ", Unwrap(request.extensions), "!">>)]
                 ELSE [status |-> INTERNAL_SERVER_ERROR, headers |-> <<>>,
                       body |-> Text(<<"Missing request extension">>)]))
    /\ UNCHANGED <<outside_pipeline, strategy, layers, credential, secret, decoded, lookup, calls,
                   response, baseline>>

\* A handler of a public route: it needs no account.
public ==
    /\ Running("public", "enter")
    /\ Return(Ok([status |-> OK, headers |-> <<>>, body |-> Text(<<"public">>)]))
    /\ UNCHANGED <<outside_pipeline, strategy, layers, credential, secret, decoded, lookup, calls,
                   response, baseline>>

\* The handler behind authn::authenticate in its tests: it greets whoever
\* got through.
user ==
    /\ Running("user", "enter")
    /\ Return(Ok([status |-> OK, headers |-> <<>>, body |-> Text(<<"Hello, user!">>)]))
    /\ UNCHANGED <<outside_pipeline, strategy, layers, credential, secret, decoded, lookup, calls,
                   response, baseline>>

\* What the handlers of api/response_test.rs return: a status response
\* (`.into()`), an error that is no JsonResponse (`Err(anyhow!(..))?`), and
\* JsonResponse<JsonStatus> errors with and without detail (map_err .. `?`).
HandlerResults ==
    {Ok(JsonResponse_into_response(of_status(OK))),
     Ok(JsonResponse_into_response(
            with_detail(of_status(UNAUTHORIZED), "You shall not pass!"))),
     Err(ErrOther("An unhandled error was propagated!")),
     Err(ErrJsonResponse(
            with_detail(of_status(IM_A_TEAPOT), "Handled with detail."))),
     Err(ErrJsonResponse(of_status(IM_A_TEAPOT)))}

\* `async fn handler() -> JsonResult` routed on its own, as in
\* api/response_test.rs.
json_handler ==
    /\ Running("json_handler", "enter")
    /\ \E r \in HandlerResults : Return(r)
    /\ UNCHANGED <<outside_pipeline, strategy, layers, credential, secret, decoded, lookup, calls,
                   response, baseline>>

\* What is observable of a finished request.
Outcome(resp) ==
    [layers |-> layers, attached |-> request.extensions,
     nextRuns |-> frames[1].nextRuns, ret |-> frames[1].ret,
     lookups |-> Len(SelectSeq(calls, LAMBDA c : c.fn = "get_account")),
     response |-> resp]

\* The outermost stage has returned: its result is turned into the response.
Respond ==
    /\ pc = "returned"
    /\ depth = 1
    /\ response' = Some(Result_into_response(Unwrap(frames[1].ret)))
    /\ pc' = "done"
    /\ baseline' = IF layers[1] \in Resolvers /\ ~IsSome(credential)
                   THEN Some(Outcome(response'))
                   ELSE baseline
    /\ UNCHANGED <<outside_pipeline, strategy, request, layers, depth, frames, credential,
                   secret, decoded, lookup, calls>>

\* The response was sent: the request's task ends and its locals are dropped.
Finish ==
    /\ pc = "done"
    /\ pc' = "idle"
    /\ request' = [authorization |-> None, cookie |-> None, extensions |-> None]
    /\ depth' = 1
    /\ frames' = [i \in 1..MaxLayers |-> EmptyFrame]
    /\ credential' = None
    /\ secret' = None
    /\ decoded' = None
    /\ lookup' = None
    /\ calls' = <<>>
    /\ response' = None
    /\ UNCHANGED <<outside_pipeline, strategy, layers, baseline>>

Next ==
    \/ NewRequest
    \/ authorize
    \/ authorize_return
    \/ resolve_extract
    \/ resolve_decoded
    \/ resolve_lookup
    \/ resolve_return
    \/ authenticate
    \/ authenticate_return
    \/ decorate_extract
    \/ decorate_decode
    \/ decorate_lookup
    \/ decorate_return
    \/ authn_extract
    \/ authn_decode
    \/ authn_lookup
    \/ authn_return
    \/ handler
    \/ public
    \/ user
    \/ json_handler
    \/ upstream
    \/ upstream_return
    \/ Respond
    \/ Finish

Spec == Init /\ [][Next]_vars

\* Every step of a request in flight: all of Next but the arrival of a request.
Progress ==
    \/ authorize
    \/ authorize_return
    \/ resolve_extract
    \/ resolve_decoded
    \/ resolve_lookup
    \/ resolve_return
    \/ authenticate
    \/ authenticate_return
    \/ decorate_extract
    \/ decorate_decode
    \/ decorate_lookup
    \/ decorate_return
    \/ authn_extract
    \/ authn_decode
    \/ authn_lookup
    \/ authn_return
    \/ handler
    \/ public
    \/ user
    \/ json_handler
    \/ upstream
    \/ upstream_return
    \/ Respond
    \/ Finish

\* The runtime keeps polling the request's task and every collaborator call
\* completes: a request in flight takes its next step.
FairSpec == Spec /\ WF_vars(Progress)

\* ------------------------------------------------------------ cancellation
\* Where a request's task is suspended: the awaits of the collaborators'
\* futures. The stages after the resolver have no await of their own.
AwaitPoints ==
    {"decode_claims", "get_account", "get_service_secret", "session_secret",
     "user_lookup"}

\* The request's task is cancelled: its future is dropped at the await it
\* is suspended at, and nothing of it runs any more.
Cancel ==
    /\ pc \in AwaitPoints
    /\ pc' = "cancelled"
    /\ UNCHANGED <<outside_pipeline, strategy, request, layers, depth, frames, credential,
                   secret, decoded, lookup, calls, response, baseline>>

\* The dropped future's request and locals are dropped with it.
Dropped ==
    /\ pc = "cancelled"
    /\ pc' = "idle"
    /\ request' = [authorization |-> None, cookie |-> None, extensions |-> None]
    /\ depth' = 1
    /\ frames' = [i \in 1..MaxLayers |-> EmptyFrame]
    /\ credential' = None
    /\ secret' = None
    /\ decoded' = None
    /\ lookup' = None
    /\ calls' = <<>>
    /\ response' = None
    /\ UNCHANGED <<outside_pipeline, strategy, layers, baseline>>

CancelNext ==
    \/ Next
    \/ Cancel
    \/ Dropped

\* The pipeline with requests that may be cancelled.
CancelSpec == Init /\ [][CancelNext]_vars

\* ------------------------------------------------------------ security/crypto.rs
\* Bytes are the integers 0 to 255. A base64 text is a sequence of symbols: a
\* character of the alphabet is written as its index in the alphabet
\* (`A` is 0, `/` is 63), `=` as Pad, and any byte outside both as NotSymbol.
Pad == 64
NotSymbol == 65
Symbols == 0..63

KeyLen == 32
NonceLen == 12
TagLen == 16
MaxPlainLen == 2

io_UnexpectedEof == ErrOther("failed to fill whole buffer")
DecodeError == ErrOther("DecodeError")
FromUtf8Error == ErrOther("FromUtf8Error")
FailedToDecrypt == ErrOther("Failed to decrypt!")
\* `data.split_at(12)` on a shorter slice: the thread panics.
Panic == [tag |-> "Panic", msg |-> "mid > len"]

\* The byte n times.
Repeat(b, n) == [i \in 1..n |-> b]

RECURSIVE Sum(_)
Sum(bytes) == IF bytes = <<>> THEN 0 ELSE Head(bytes) + Sum(Tail(bytes))

\* BASE64.encode: three bytes to four symbols, the last group padded.
RECURSIVE BASE64_encode(_)
BASE64_encode(bytes) ==
    IF Len(bytes) = 0 THEN <<>>
    ELSE IF Len(bytes) = 1
    THEN <<bytes[1] \div 4, (bytes[1] % 4) * 16, Pad, Pad>>
    ELSE IF Len(bytes) = 2
    THEN <<bytes[1] \div 4, (bytes[1] % 4) * 16 + bytes[2] \div 16,
           (bytes[2] % 16) * 4, Pad>>
    ELSE <<bytes[1] \div 4, (bytes[1] % 4) * 16 + bytes[2] \div 16,
           (bytes[2] % 16) * 4 + bytes[3] \div 64, bytes[3] % 64>>
         \o BASE64_encode(SubSeq(bytes, 4, Len(bytes)))

\* One group of four symbols: a symbol outside the alphabet, padding
\* anywhere but at the end of the group, and non-zero trailing bits are
\* errors.
BASE64_decode_block(c) ==
    IF c[1] \notin Symbols \/ c[2] \notin Symbols THEN Err(DecodeError)
    ELSE IF c[3] = Pad
    THEN IF c[4] = Pad /\ c[2] % 16 = 0
         THEN Ok(<<c[1] * 4 + c[2] \div 16>>)
         ELSE Err(DecodeError)
    ELSE IF c[3] \notin Symbols THEN Err(DecodeError)
    ELSE IF c[4] = Pad
    THEN IF c[3] % 4 = 0
         THEN Ok(<<c[1] * 4 + c[2] \div 16, (c[2] % 16) * 16 + c[3] \div 4>>)
         ELSE Err(DecodeError)
    ELSE IF c[4] \notin Symbols THEN Err(DecodeError)
    ELSE Ok(<<c[1] * 4 + c[2] \div 16, (c[2] % 16) * 16 + c[3] \div 4,
              (c[3] % 4) * 64 + c[4]>>)

\* BASE64.decode: the length is a multiple of four and every group decodes.
RECURSIVE BASE64_decode(_)
BASE64_decode(text) ==
    IF Len(text) = 0 THEN Ok(<<>>)
    ELSE IF Len(text) < 4 THEN Err(DecodeError)
    ELSE LET block == BASE64_decode_block(SubSeq(text, 1, 4))
             rest == BASE64_decode(SubSeq(text, 5, Len(text)))
         IN IF ~IsOk(block) THEN block
            ELSE IF ~IsOk(rest) THEN rest
            ELSE Ok(block.val \o rest.val)

\* Mutant of read_exact: a short secret is filled up with zero bytes.
read_exact_zero_filled(secret_bytes) ==
    Ok([i \in 1..KeyLen |-> IF i <= Len(secret_bytes) THEN secret_bytes[i] ELSE 0])

\* Mutant of read_exact: the key is the last KeyLen bytes of the secret.
read_exact_from_end(secret_bytes) ==
    IF Len(secret_bytes) < KeyLen THEN Err(io_UnexpectedEof)
    ELSE Ok(SubSeq(secret_bytes, Len(secret_bytes) - KeyLen + 1, Len(secret_bytes)))

\* `secret.as_bytes().read_exact(&mut key)`: the first KeyLen bytes of the
\* secret, or an error when the secret has fewer.
read_exact(secret_bytes) ==
    IF Len(secret_bytes) < KeyLen THEN Err(io_UnexpectedEof)
    ELSE Ok(SubSeq(secret_bytes, 1, KeyLen))

\* String::from_utf8, for the one- and two-byte forms (the bytes of the
\* model form no longer ones).
RECURSIVE is_utf8(_)
is_utf8(bytes) ==
    IF Len(bytes) = 0 THEN TRUE
    ELSE IF bytes[1] < 128 THEN is_utf8(Tail(bytes))
    ELSE IF bytes[1] \in 194..223 /\ Len(bytes) >= 2 /\ bytes[2] \in 128..191
    THEN is_utf8(SubSeq(bytes, 3, Len(bytes)))
    ELSE FALSE
from_utf8(bytes) == IF is_utf8(bytes) THEN Ok(bytes) ELSE Err(FromUtf8Error)

\* Aes256Gcm stands as an authenticated stream cipher: the i-th byte is
\* shifted by a key stream byte of key and nonce, and a tag of TagLen bytes
\* over key, nonce and cipher text follows.
key_stream(key, n, i) ==
    (key[((i - 1) % Len(key)) + 1] + n[((i - 1) % NonceLen) + 1] + i) % 256
seal_bytes(key, n, pt) ==
    [i \in 1..Len(pt) |-> (pt[i] + key_stream(key, n, i)) % 256]
open_bytes(key, n, ct) ==
    [i \in 1..Len(ct) |-> (ct[i] - key_stream(key, n, i)) % 256]
tag_of(key, n, ct) ==
    [j \in 1..TagLen |->
        (key[j] + n[((j - 1) % NonceLen) + 1] + Sum(ct) + j * Len(ct)) % 256]

\* cipher.encrypt(nonce, plain_text): cipher text, then tag.
Aes256Gcm_encrypt(key, n, pt) ==
    seal_bytes(key, n, pt) \o tag_of(key, n, seal_bytes(key, n, pt))

\* Mutant of Aes256Gcm_decrypt: the tag is cut off and not verified.
Aes256Gcm_decrypt_unverified(key, n, body) ==
    IF Len(body) < TagLen THEN Err(ErrOther("aead::Error"))
    ELSE Ok(open_bytes(key, n, SubSeq(body, 1, Len(body) - TagLen)))

\* cipher.decrypt(nonce, cipher_text): the tag is verified first. The cipher
\* is taken to be unforgeable: a body opens only if the cipher sealed it
\* under this key and nonce.
Aes256Gcm_decrypt(key, n, body) ==
    IF Len(body) < TagLen THEN Err(ErrOther("aead::Error"))
    ELSE LET ct == SubSeq(body, 1, Len(body) - TagLen)
             tag == SubSeq(body, Len(body) - TagLen + 1, Len(body))
         IN IF tag # tag_of(key, n, ct) THEN Err(ErrOther("aead::Error"))
            ELSE IF <<key, n, body>> \notin sealed THEN Err(ErrOther("aead::Error"))
            ELSE Ok(open_bytes(key, n, ct))

\* Mutant of encrypt_string_aes256_gcm: the nonce is left out of the result.
encrypt_string_aes256_gcm_without_nonce(text, secret_bytes, n) ==
    LET key == read_exact(secret_bytes) IN
    IF ~IsOk(key) THEN key
    ELSE Ok(BASE64_encode(Aes256Gcm_encrypt(key.val, n, text)))

\* encrypt_string_aes256_gcm, for the nonce n the random source filled in
\* (the system's random source is taken to deliver).
encrypt_string_aes256_gcm(text, secret_bytes, n) ==
    LET key == read_exact(secret_bytes) IN
    IF ~IsOk(key) THEN key
    ELSE Ok(BASE64_encode(n \o Aes256Gcm_encrypt(key.val, n, text)))

\* decrypt_string_aes256_gcm.
decrypt_string_aes256_gcm(text, secret_bytes) ==
    LET key == read_exact(secret_bytes) IN
    IF ~IsOk(key) THEN key
    ELSE LET data == BASE64_decode(text) IN
         IF ~IsOk(data) THEN data
         ELSE IF Len(data.val) < NonceLen THEN Panic
         ELSE LET result == Aes256Gcm_decrypt(
                                key.val,
                                SubSeq(data.val, 1, NonceLen),
                                SubSeq(data.val, NonceLen + 1, Len(data.val)))
              IN IF ~IsOk(result) THEN Err(FailedToDecrypt)
                 ELSE from_utf8(result.val)

\* The inputs of a run. Plain texts are strings of at most MaxPlainLen
\* characters, `a` and `e-acute` (two bytes).
PlainChars == {<<97>>, <<195, 169>>}
RECURSIVE StringsUpTo(_)
StringsUpTo(n) ==
    IF n = 0 THEN {<<>>}
    ELSE StringsUpTo(n - 1) \cup
         {s \o c : s \in StringsUpTo(n - 1), c \in PlainChars}
PlainTexts == StringsUpTo(MaxPlainLen)

\* Secrets: empty, one byte short, exactly KeyLen bytes, a longer one with
\* the same first KeyLen bytes, and one that differs in byte KeyLen.
SecretA == Repeat(7, KeyLen)
Secrets ==
    {<<>>, Repeat(7, KeyLen - 1), SecretA, SecretA \o <<8>>,
     Repeat(7, KeyLen - 1) \o <<8>>}
Nonces == {[i \in 1..NonceLen |-> i], [i \in 1..NonceLen |-> 200 - 3 * i]}

\* What another holder of SecretA sealed: two bytes that are no UTF-8.
ForeignNonce == [i \in 1..NonceLen |-> 50 + i]
ForeignBox == Aes256Gcm_encrypt(SecretA, ForeignNonce, <<255, 254>>)

\* Payloads that reach decrypt from elsewhere than encrypt: the empty
\* string, fewer bytes than a nonce, no more than a nonce, a length base64
\* does not have, a byte outside the alphabet, bytes no one sealed, and the
\* foreign box.
CraftedPayloads ==
    {<<>>,
     BASE64_encode(Repeat(1, NonceLen - 1)),
     BASE64_encode(Repeat(1, NonceLen)),
     <<0, 0, 0>>,
     <<NotSymbol, 0, 0, 0>>,
     BASE64_encode(Repeat(1, NonceLen + TagLen + 1)),
     BASE64_encode(ForeignNonce \o ForeignBox)}

\* The pipeline is not run along with the cipher.
PipelineOff ==
    /\ strategy = "header"
    /\ request = [authorization |-> None, cookie |-> None, extensions |-> None]
    /\ layers = <<"resolve", "authorize", "handler">>
    /\ pc = "idle"
    /\ depth = 1
    /\ frames = [i \in 1..MaxLayers |-> EmptyFrame]
    /\ credential = None
    /\ secret = None
    /\ decoded = None
    /\ lookup = None
    /\ calls = <<>>
    /\ response = None
    /\ baseline = None

CipherInit ==
    /\ plain_text \in PlainTexts
    /\ enc_secret \in Secrets
    /\ nonce = None
    /\ encrypted = None
    /\ encrypted_text = <<>>
    /\ dec_secret = <<>>
    /\ decrypted = None
    /\ sealed = {<<SecretA, ForeignNonce, ForeignBox>>}
    /\ cpc = "start"
    /\ PipelineOff
    /\ ClaimsOff
    /\ ConcOff
    /\ BuilderOff

\* encrypt_string_aes256_gcm(plain_text, enc_secret) is called: the random
\* source fills the nonce, and what the cipher sealed is on record.
encrypt ==
    /\ cpc = "start"
    /\ \E n \in Nonces :
        /\ nonce' = Some(n)
        /\ encrypted' = Some(encrypt_string_aes256_gcm(plain_text, enc_secret, n))
        /\ sealed' = IF IsOk(read_exact(enc_secret))
                     THEN sealed \cup
                          {<<read_exact(enc_secret).val, n,
                             Aes256Gcm_encrypt(read_exact(enc_secret).val, n, plain_text)>>}
                     ELSE sealed
    /\ cpc' = "encrypted"
    /\ UNCHANGED <<outside_cipher, plain_text, enc_secret, encrypted_text, dec_secret, decrypted>>

\* The payload reaches decrypt as encrypt returned it, with any secret.
deliver ==
    /\ cpc = "encrypted"
    /\ IsOk(Unwrap(encrypted))
    /\ encrypted_text' = Unwrap(encrypted).val
    /\ dec_secret' \in Secrets
    /\ cpc' = "received"
    /\ UNCHANGED <<outside_cipher, plain_text, enc_secret, nonce, encrypted, decrypted, sealed>>

\* One byte of the payload is changed on the way; the secret is the one it
\* was encrypted with.
tamper ==
    /\ cpc = "encrypted"
    /\ IsOk(Unwrap(encrypted))
    /\ \E i \in 1..Len(Unwrap(encrypted).val), b \in Symbols \cup {Pad, NotSymbol} :
        /\ b # Unwrap(encrypted).val[i]
        /\ encrypted_text' = [Unwrap(encrypted).val EXCEPT ![i] = b]
    /\ dec_secret' = enc_secret
    /\ cpc' = "received"
    /\ UNCHANGED <<outside_cipher, plain_text, enc_secret, nonce, encrypted, decrypted, sealed>>

\* A payload from elsewhere reaches decrypt, with any secret.
submit ==
    /\ cpc = "encrypted"
    /\ encrypted_text' \in CraftedPayloads
    /\ dec_secret' \in Secrets
    /\ cpc' = "received"
    /\ UNCHANGED <<outside_cipher, plain_text, enc_secret, nonce, encrypted, decrypted, sealed>>

\* decrypt_string_aes256_gcm(encrypted_text, dec_secret) is called.
decrypt ==
    /\ cpc = "received"
    /\ decrypted' = Some(decrypt_string_aes256_gcm(encrypted_text, dec_secret))
    /\ cpc' = "decrypted"
    /\ UNCHANGED <<outside_cipher, plain_text, enc_secret, nonce, encrypted, encrypted_text,
                   dec_secret, sealed>>

CipherNext ==
    \/ encrypt
    \/ deliver
    \/ tamper
    \/ submit
    \/ decrypt

CipherSpec == CipherInit /\ [][CipherNext]_cipher_vars

\* ------------------------------------------------------------ claims.rs on its own
\* Tokens by content: with and without three parts, signed with the
\* verifier's key or another, each claim present or not, and an `exp` around
\* the verifier's clock and around the leeway.
ExpValues ==
    {None} \cup {Some(Now + off) : off \in {-120, -61, -60, -45, -1, 0, 1, 60}}
TokenContents ==
    [wellFormed : BOOLEAN, key : {"k1", "k2"}, sub : {None, Some("u1")},
     exp : ExpValues, omn_cl_typ : {None, Some("session"), Some("refresh")}]

\* Clock readings: before the epoch, or a time since the epoch.
ClockReadings ==
    {[before_epoch |-> TRUE, secs |-> 0, ticks |-> 0]} \cup
    [before_epoch : {FALSE}, secs : {0, 1, SecsMax \div 2, SecsMax}, ticks : 0..(TicksPerSec - 1)]
Durations == [secs : 0..SecsMax, ticks : 0..(TicksPerSec - 1)]

\* The durations sessions are created for.
SessionDurations == [secs : {0, 1, SecsMax \div 2, SecsMax}, ticks : 0..(TicksPerSec - 1)]
Keys == {"k1", "k2"}

ClaimsInit ==
    /\ \/ /\ kpc = "decode"
          /\ jwt \in TokenContents
          /\ decoding_key = "k1"
          /\ clock = Epoch
          /\ duration = ZeroDuration
          /\ usize_bits = SecsBits
          /\ account_id = "u1"
          /\ encoding_key = "k1"
       \/ /\ kpc = "expires_in"
          /\ jwt = NoToken
          /\ decoding_key = "k1"
          /\ clock \in ClockReadings
          /\ duration \in Durations
          /\ usize_bits \in {SecsBits - 1, SecsBits}
          /\ account_id = "u1"
          /\ encoding_key = "k1"
       \/ /\ kpc = "create_session"
          /\ jwt = NoToken
          /\ decoding_key \in Keys
          /\ clock \in ClockReadings
          /\ duration \in SessionDurations
          /\ usize_bits \in {SecsBits - 1, SecsBits}
          /\ account_id \in Subjects
          /\ encoding_key \in Keys
    /\ claims_result = None
    /\ expiry = None
    /\ issued = None
    /\ presented_at = None
    /\ PipelineOff
    /\ CipherOff
    /\ ConcOff
    /\ BuilderOff

\* decode_claims(jwt, decoding_key) is called.
call_decode_claims ==
    /\ kpc = "decode"
    /\ claims_result' = Some(decode(jwt, decoding_key))
    /\ kpc' = "decoded"
    /\ UNCHANGED <<outside_claims, jwt, decoding_key, clock, duration, usize_bits, expiry,
                   account_id, encoding_key, issued, presented_at>>

\* expires_in(duration) is called.
call_expires_in ==
    /\ kpc = "expires_in"
    /\ expiry' = Some(expires_in(clock, duration, usize_bits))
    /\ kpc' = "expired"
    /\ UNCHANGED <<outside_claims, jwt, decoding_key, clock, duration, usize_bits,
                   claims_result, account_id, encoding_key, issued, presented_at>>

\* create_session(account_id, encoding_key, duration) is called.
call_create_session ==
    /\ kpc = "create_session"
    /\ issued' = Some(create_session(account_id, encoding_key, duration, clock, usize_bits))
    /\ kpc' = "issued"
    /\ UNCHANGED <<outside_claims, jwt, decoding_key, clock, duration, usize_bits, expiry,
                   claims_result, account_id, encoding_key, presented_at>>

\* The issued token is presented to a verifier, whose clock reads the
\* issue time or a time around the token's expiry, and decoded with the
\* verifier's key.
present_issued ==
    /\ kpc = "issued"
    /\ IsOk(Unwrap(issued))
    /\ LET token == Unwrap(issued).val IN
       \E at \in {clock.secs, Unwrap(token.exp) - 1, Unwrap(token.exp),
                  Unwrap(token.exp) + 1} :
        /\ at >= clock.secs
        /\ presented_at' = Some(at)
        /\ jwt' = token
        /\ claims_result' = Some(decode_at(token, decoding_key, at))
    /\ kpc' = "presented"
    /\ UNCHANGED <<outside_claims, decoding_key, clock, duration, usize_bits, expiry,
                   account_id, encoding_key, issued>>

ClaimsNext ==
    \/ call_decode_claims
    \/ call_expires_in
    \/ call_create_session
    \/ present_issued

ClaimsSpec == ClaimsInit /\ [][ClaimsNext]_claims_vars

\* ------------------------------------------------------------ concurrent requests
\* Requests of the protected route (resolve, authorize, handler) processed
\* concurrently: each request has its own task, whose steps between awaits
\* interleave with the other tasks' steps; the tasks share the session
\* manager. The manager of this route reads the authorization header,
\* decodes with its secret and looks accounts up in its store.
ConcHeaders ==
    {None} \cup {Some(BearerPrefix \o <<t>>) : t \in {"tok.u1", "tok.u2", "tok.refresh"}}

ConcInit ==
    /\ tasks = [r \in RequestIds |-> IdleTask]
    /\ manager \in Directories
    /\ PipelineOff
    /\ CipherOff
    /\ ClaimsOff
    /\ BuilderOff

\* The step of request r's task changes that task's state to t.
TaskStep(r, t) ==
    /\ tasks' = [tasks EXCEPT ![r] = t]
    /\ UNCHANGED <<outside_conc, manager>>

\* Request r arrives and its task is spawned.
task_arrive(r) ==
    /\ tasks[r].pc = "idle"
    /\ \E h \in ConcHeaders :
        TaskStep(r, [IdleTask EXCEPT !.pc = "resolve", !.authorization = h])

\* resolve of request r, up to its first await.
task_resolve_extract(r) ==
    LET t == tasks[r]
        c == from_authorization_header([authorization |-> t.authorization])
    IN  /\ t.pc = "resolve"
        /\ TaskStep(r, [t EXCEPT !.credential = c,
                                 !.pc = IF IsSome(c) THEN "decode_claims" ELSE "authorize",
                                 !.nextRuns = IF IsSome(c) THEN 0 ELSE 1])

\* resolve of request r, decode_claims has returned.
task_resolve_decoded(r) ==
    LET t == tasks[r]
        result == decode_claims(Unwrap(t.credential), "k1")
        session == IsOk(result) /\ result.val.omn_cl_typ = SESSION_CLAIMS_TYPE
    IN  /\ t.pc = "decode_claims"
        /\ TaskStep(r, [t EXCEPT !.decoded = Some(result),
                                 !.pc = IF session THEN "get_account" ELSE "authorize",
                                 !.nextRuns = IF session THEN 0 ELSE 1])

\* What resolve of request r does with the result of get_account.
task_after_lookup(r, result) ==
    LET t == tasks[r] IN
    IF ~IsOk(result)
    THEN TaskStep(r, [t EXCEPT !.lookup = Some(result), !.pc = "done",
                               !.response = Some(ResponseError_into_response(result.err))])
    ELSE TaskStep(r, [t EXCEPT !.lookup = Some(result), !.pc = "authorize",
                               !.nextRuns = 1,
                               !.extensions = IF IsSome(result.val) THEN result.val
                                              ELSE t.extensions])

\* Mutant of resolve: the account id is kept where every request's task
\* writes it, so the lookup is made for the subject of whichever request
\* decoded last.
task_resolve_lookup_shared_id(r) ==
    /\ tasks[r].pc = "get_account"
    /\ \E q \in RequestIds :
        /\ tasks[q].pc = "get_account"
        /\ task_after_lookup(r, manager[Unwrap(tasks[q].decoded).val.sub])

\* resolve of request r, get_account(account_id) has returned.
task_resolve_lookup(r) ==
    /\ tasks[r].pc = "get_account"
    /\ task_after_lookup(r, manager[Unwrap(tasks[r].decoded).val.sub])

\* authorize of request r.
task_authorize(r) ==
    LET t == tasks[r] IN
    /\ t.pc = "authorize"
    /\ IF IsSome(t.extensions)
       THEN TaskStep(r, [t EXCEPT !.pc = "handler"])
       ELSE TaskStep(r, [t EXCEPT !.pc = "done",
                                  !.response = Some(ResponseError_into_response(
                                      ErrJsonResponse(of_status(UNAUTHORIZED))))])

\* The handler of request r greets the account it finds attached.
task_handler(r) ==
    LET t == tasks[r] IN
    /\ t.pc = "handler"
    /\ TaskStep(r, [t EXCEPT !.pc = "done",
                             !.response = Some([status |-> OK, headers |-> <<>>,
                                 body |-> Text(<<"Hello, ", Unwrap(t.extensions), "!">>)])])

ConcNext ==
    \E r \in RequestIds :
        \/ task_arrive(r)
        \/ task_resolve_extract(r)
        \/ task_resolve_decoded(r)
        \/ task_resolve_lookup(r)
        \/ task_authorize(r)
        \/ task_handler(r)

ConcSpec == ConcInit /\ [][ConcNext]_conc_vars

\* ------------------------------------------------------------ building a status response
\* A JsonResponse<JsonStatus> is made with of_status and then changed by
\* up to MaxCalls builder calls, in any order.
MaxCalls == 3
StatusCodes == {OK, UNAUTHORIZED, INTERNAL_SERVER_ERROR, IM_A_TEAPOT}
Details == {"You shall not pass!", "Handled with detail."}
HeaderNames == {"x-request-id"}
HeaderTexts == {"1"}

BuilderInit ==
    /\ built = None
    /\ ncalls = 0
    /\ PipelineOff
    /\ CipherOff
    /\ ClaimsOff
    /\ ConcOff

\* JsonResponse::of_status(code) is called.
call_of_status ==
    /\ ~IsSome(built)
    /\ \E code \in StatusCodes : built' = Some(of_status(code))
    /\ UNCHANGED <<outside_builder, ncalls>>

\* The builder call that gives next is made on the response built so far.
BuilderCall(next) ==
    /\ IsSome(built)
    /\ ncalls < MaxCalls
    /\ built' = Some(next)
    /\ ncalls' = ncalls + 1
    /\ UNCHANGED outside_builder

call_with_status ==
    \E code \in StatusCodes : BuilderCall(with_status(Unwrap(built), code))

call_with_detail ==
    \E d \in Details : BuilderCall(with_detail(Unwrap(built), d))

call_with_headers ==
    \E k \in HeaderNames, v \in HeaderTexts :
        BuilderCall(with_headers(Unwrap(built), << <<k, v>> >>))

call_append_header ==
    \E k \in HeaderNames, v \in HeaderTexts :
        BuilderCall(append_header(Unwrap(built), k, v))

BuilderNext ==
    \/ call_of_status
    \/ call_with_status
    \/ call_with_detail
    \/ call_with_headers
    \/ call_append_header

BuilderSpec == BuilderInit /\ [][BuilderNext]_builder_vars

\* ------------------------------------------------------------ properties
\* The stage at index i has returned.
HasReturned(i) == IsSome(frames[i].ret)
\* The response the stage below index i produced, as next.run hands it up.
Downstream(i) == Result_into_response(Unwrap(frames[i + 1].ret))
\* The stage at index i returned Ok(what its one run of next produced).
PassedThrough(i) ==
    /\ frames[i].nextRuns = 1
    /\ HasReturned(i + 1)
    /\ frames[i].ret = Some(Ok(Downstream(i)))
\* The 401 response with body {"reason":"Unauthorized","detail":null}.
Unauthorized401 ==
    [status |-> 401, headers |-> <<>>,
     body |-> [json |-> TRUE,
               fields |-> << <<"reason", <<"Unauthorized">> >>,
                             <<"detail", <<>> >> >>]]
EnforcerAt(e) == e \in 1..Len(layers) /\ layers[e] \in Enforcers
\* A request is in flight or finished (not the idle state between requests).
InRequest == pc # "idle"

C2_EnforcerResponse ==
    pc = "done" =>
    \A e \in 1..Len(layers) : (EnforcerAt(e) /\ HasReturned(e)) =>
        IF IsSome(frames[e].ext)
        THEN /\ HasReturned(e + 1)
             /\ response = Some(Downstream(e))
             /\ frames[e].down = response
        ELSE response = Some(Unauthorized401)

\* C2 witness: a finished request that the enforcer rejected with the 401.
C2_Witness ==
    /\ pc = "done"
    /\ EnforcerAt(2)
    /\ HasReturned(2)
    /\ ~IsSome(frames[2].ext)
    /\ response = Some(Unauthorized401)

\* The request carries `authorization: Bearer <token>` and that header is
\* where the session manager takes the credential from.
BearerCredential ==
    /\ strategy \in {"header", "header_then_cookie"}
    /\ IsSome(request.authorization)
    /\ Len(Unwrap(request.authorization)) >= 7
    /\ SubSeq(Unwrap(request.authorization), 1, 7) = <<"B", "e", "a", "r", "e", "r", " ">>
    /\ credential = Some(SubSeq(Unwrap(request.authorization), 8,
                                Len(Unwrap(request.authorization))))

\* C3: end to end through resolve, authorize and the protected handler: a
\* bearer token that decodes, has claim type "session" and whose subject the
\* lookup resolves reaches the handler with exactly the looked-up account
\* attached, and the response is 200 with the handler's body.
C3_EndToEnd ==
    (/\ pc = "done"
     /\ layers = <<"resolve", "authorize", "handler">>
     /\ BearerCredential
     /\ IsSome(decoded) /\ IsOk(Unwrap(decoded))
     /\ Unwrap(decoded).val.omn_cl_typ = "session"
     /\ IsSome(lookup) /\ IsOk(Unwrap(lookup)) /\ IsSome(Unwrap(lookup).val))
    =>
    LET account == Unwrap(Unwrap(lookup).val) IN
    /\ frames[3].ext = Some(account)
    /\ HasReturned(3)
    /\ Unwrap(response).status = 200
    /\ Unwrap(response).body =
         [json |-> FALSE, fields |-> << <<"text", <<"Hello, ", account, "!">> >> >>]
    /\ response = Some(Downstream(2))

\* C3 witness: such a request has been answered, for the second account.
C3_Witness ==
    /\ pc = "done"
    /\ layers = <<"resolve", "authorize", "handler">>
    /\ BearerCredential
    /\ lookup = Some(Ok(Some("acct2")))
    /\ Unwrap(response).status = 200

\* The authorization header is absent or does not start with `Bearer `.
NoBearerHeader ==
    \/ ~IsSome(request.authorization)
    \/ Len(Unwrap(request.authorization)) < 7
    \/ SubSeq(Unwrap(request.authorization), 1, 7) # <<"B", "e", "a", "r", "e", "r", " ">>
\* The decoded claims carry a claim type other than "session".
WrongClaimType ==
    /\ IsSome(decoded)
    /\ IsOk(Unwrap(decoded))
    /\ Unwrap(decoded).val.omn_cl_typ # "session"

\* C4: through resolve then authorize, a request for which resolve attaches
\* no account (no authorization header or one without the `Bearer ` prefix,
\* where the session manager reads the header only; or a claim type other
\* than "session"; or any other pass-through) is answered 401 with reason
\* "Unauthorized" and detail null, and the protected handler never runs.
C4_UnattachedIsRejected ==
    (/\ pc = "done"
     /\ layers = <<"resolve", "authorize", "handler">>
     /\ \/ strategy = "header" /\ NoBearerHeader
        \/ WrongClaimType
        \/ frames[1].nextRuns = 1 /\ ~IsSome(frames[2].ext))
    =>
    /\ response = Some(Unauthorized401)
    /\ frames[3] = EmptyFrame
    /\ ~IsSome(request.extensions)

\* C4 witness: a request whose header lacks the prefix was answered 401.
C4_Witness ==
    /\ pc = "done"
    /\ layers = <<"resolve", "authorize", "handler">>
    /\ strategy = "header"
    /\ request.authorization = Some(<<"tok.u1">>)
    /\ response = Some(Unauthorized401)

ResolverAt(i) == i \in 1..Len(layers) /\ layers[i] \in Resolvers
\* The resolver made no call of the named collaborator method.
NeverCalled(fn) == \A i \in 1..Len(calls) : calls[i].fn # fn
\* The resolver, the outermost stage, ran next once with the request's
\* extensions still empty; what it returns, if it has, is Ok(that response).
PassThroughUnauthenticated ==
    /\ frames[1].nextRuns = 1
    /\ ~IsSome(frames[2].ext)
    /\ ~IsSome(request.extensions)
    /\ HasReturned(1) => PassedThrough(1)
    /\ pc = "done" => response = Some(Downstream(1))

\* C5: the resolver (resolve, decorate) never itself produces a 401: what it
\* returns is Ok(the response its one run of next produced) or the error a
\* collaborator returned, propagated unchanged.
C5_ResolverNever401 ==
    (InRequest /\ ResolverAt(1)) =>
    /\ HasReturned(1) =>
        \/ PassedThrough(1)
        \/ /\ Unwrap(frames[1].ret).tag = "Err"
           /\ frames[1].nextRuns = 0
           /\ \/ (IsSome(lookup) /\ Unwrap(lookup) = Err(Unwrap(frames[1].ret).err))
              \/ (IsSome(secret) /\ Unwrap(secret) = Err(Unwrap(frames[1].ret).err))

\* C5 witness: a request with a token of the wrong claim type was answered
\* on a public route.
C5_Witness ==
    /\ pc = "done"
    /\ layers = <<"resolve", "public">>
    /\ WrongClaimType
    /\ Unwrap(response).status = 200

\* The resolver is past its extraction of the credential.
Extracted ==
    /\ InRequest
    /\ ResolverAt(1)
    /\ (depth > 1 \/ pc # "enter")

\* C6: resolver step 1: when extract_credential returns no credential,
\* resolve runs next with no account attached, calls neither decode_claims
\* nor get_account, and returns Ok(the downstream response).
C6_NoCredentialPassesThrough ==
    (Extracted /\ ~IsSome(credential)) =>
    /\ PassThroughUnauthenticated
    /\ calls = <<>>
    /\ ~IsSome(decoded)
    /\ ~IsSome(lookup)
    /\ ~IsSome(extract_credential(strategy, request))

\* C6 witness: a request without a credential was answered through resolve.
C6_Witness ==
    /\ pc = "done"
    /\ layers[1] = "resolve"
    /\ ~IsSome(credential)
    /\ HasReturned(2)

\* The claims could not be decoded from the credential.
DecodeFailed == IsSome(decoded) /\ ~IsOk(Unwrap(decoded))

\* C7: resolver step 2: when a credential was extracted and decoding its
\* claims fails, the resolver runs next with no account attached, never
\* calls get_account, and returns Ok(the downstream response).
C7_DecodeFailurePassesThrough ==
    (InRequest /\ ResolverAt(1) /\ DecodeFailed) =>
    /\ IsSome(credential)
    /\ PassThroughUnauthenticated
    /\ NeverCalled("get_account")
    /\ ~IsSome(lookup)

\* C7 witness: a request whose credential did not decode was answered
\* through resolve.
C7_Witness ==
    /\ pc = "done"
    /\ layers[1] = "resolve"
    /\ IsSome(credential)
    /\ DecodeFailed
    /\ HasReturned(2)

\* C8: claim-type isolation: decoded claims whose type is not "session"
\* never get an account attached nor get_account called; the resolver runs
\* next unauthenticated, and the finished request's outcome equals that of a
\* request without a credential through the same pipeline.
C8_ClaimTypeIsolation ==
    (InRequest /\ ResolverAt(1) /\ WrongClaimType) =>
    /\ PassThroughUnauthenticated
    /\ NeverCalled("get_account")
    /\ ~IsSome(lookup)
    /\ (pc = "done" /\ IsSome(baseline) /\ Unwrap(baseline).layers = layers)
         => Outcome(response) = Unwrap(baseline)

\* C8 witness: a wrong-type token was answered after a request without a
\* credential had gone through the same pipeline.
C8_Witness ==
    /\ pc = "done"
    /\ ResolverAt(1)
    /\ WrongClaimType
    /\ IsSome(baseline)
    /\ Unwrap(baseline).layers = layers

\* get_account returned an error.
LookupFailed == IsSome(lookup) /\ ~IsOk(Unwrap(lookup))
\* The 500 response with body {"reason":"Internal Server Error","detail":null}.
Internal500 ==
    [status |-> 500, headers |-> <<>>,
     body |-> [json |-> TRUE,
               fields |-> << <<"reason", <<"Internal Server Error">> >>,
                             <<"detail", <<>> >> >>]]

\* C9 as stated: when get_account returns an error the resolver does not
\* run next and attaches no account, and the request is answered 500.
C9_LookupErrorIs500 ==
    (pc = "done" /\ layers[1] = "resolve" /\ LookupFailed) =>
    /\ frames[1].nextRuns = 0
    /\ ~IsSome(request.extensions)
    /\ Unwrap(response).status = 500

\* C9 amended: when get_account returns an error the resolver does not run
\* next and attaches no account; the error is what the resolver returns; it
\* is answered 500 with reason "Internal Server Error" and detail null,
\* unless the error is itself a JsonResponse<JsonStatus>, which is answered
\* as that response.
C9_LookupErrorPropagates ==
    (InRequest /\ ResolverAt(1) /\ LookupFailed) =>
    /\ frames[1].nextRuns = 0
    /\ frames[2] = EmptyFrame
    /\ ~IsSome(request.extensions)
    /\ frames[1].ret = Some(Err(Unwrap(lookup).err))
    /\ pc = "done" =>
        IF Unwrap(lookup).err.type = "JsonResponse<JsonStatus>"
        THEN LET boxed == Unwrap(Unwrap(lookup).err.payload) IN
             /\ Unwrap(response).status = boxed.code
             /\ Unwrap(response).body.json
             /\ Unwrap(response).body.fields =
                  << <<"reason", boxed.body.reason>>, <<"detail", boxed.body.detail>> >>
        ELSE response = Some(Internal500)

\* C9 witness: a backend error of get_account was answered 500.
C9_Witness ==
    /\ pc = "done"
    /\ layers[1] = "resolve"
    /\ LookupFailed
    /\ Unwrap(lookup).err.type = "backend"
    /\ response = Some(Internal500)

\* C10: resolver step 4, not found: when get_account returns Ok(None) the
\* resolver runs next with no account attached and returns Ok(the
\* downstream response), not an error.
C10_NotFoundPassesThrough ==
    (InRequest /\ ResolverAt(1) /\ lookup = Some(Ok(None))) =>
    /\ PassThroughUnauthenticated
    /\ HasReturned(1) => IsOk(Unwrap(frames[1].ret))

\* C10 witness: an unknown subject was answered through resolve on a public
\* route.
C10_Witness ==
    /\ pc = "done"
    /\ layers = <<"resolve", "public">>
    /\ lookup = Some(Ok(None))
    /\ Unwrap(response).status = 200

\* get_account returned an account.
LookupFound ==
    /\ IsSome(lookup)
    /\ IsOk(Unwrap(lookup))
    /\ IsSome(Unwrap(lookup).val)
\* The calls of get_account the resolver made.
GetAccountCalls == SelectSeq(calls, LAMBDA c : c.fn = "get_account")

\* C11: resolver step 5: when get_account returns Ok(Some(account)), the
\* resolver has called get_account once, with the `sub` of the decoded
\* claims; it attaches exactly that account and then runs next, whose stage
\* is entered with the account in the extensions.
C11_FoundAccountIsAttached ==
    (InRequest /\ ResolverAt(1) /\ LookupFound) =>
    /\ IsSome(decoded) /\ IsOk(Unwrap(decoded))
    /\ GetAccountCalls = << [fn |-> "get_account", arg |-> Unwrap(decoded).val.sub] >>
    /\ request.extensions = Unwrap(lookup).val
    /\ frames[1].nextRuns = 1
    /\ frames[2].ext = Unwrap(lookup).val
    /\ HasReturned(1) => PassedThrough(1)
    /\ (layers[2] \in Enforcers /\ HasReturned(2)) => frames[3].ext = Unwrap(lookup).val

\* C11 witness: resolve looked up subject u2, found the second account and
\* the request was answered.
C11_Witness ==
    /\ pc = "done"
    /\ layers[1] = "resolve"
    /\ LookupFound
    /\ Unwrap(decoded).val.sub = "u2"
    /\ request.extensions = Some("acct2")

\* The resolver returned, without running next, the error that get_account
\* or get_service_secret returned.
CollaboratorErrorPropagated ==
    /\ HasReturned(1)
    /\ Unwrap(frames[1].ret).tag = "Err"
    /\ frames[1].nextRuns = 0
    /\ frames[2] = EmptyFrame
    /\ \/ (IsSome(lookup) /\ Unwrap(lookup) = Err(Unwrap(frames[1].ret).err))
       \/ (IsSome(secret) /\ Unwrap(secret) = Err(Unwrap(frames[1].ret).err))
\* A request enters the resolver.
EntersResolver == pc = "enter" /\ depth = 1 /\ ResolverAt(1)

\* C12 as stated: the resolver always lets the request continue: every
\* request it has finished with had the downstream stage run.
C12_AlwaysRunsDownstream ==
    (pc = "done" /\ ResolverAt(1)) => frames[1].nextRuns >= 1

\* C12 amended: every request that enters the resolver eventually has the
\* downstream stage run, except when a collaborator (get_account, or
\* get_service_secret in decorate) returns an error: then downstream is not
\* run and that error is what the resolver returns.
C12_RunsDownstreamUnlessCollaboratorError ==
    /\ [](((pc = "done" /\ ResolverAt(1)) =>
             (frames[1].nextRuns = 1 /\ HasReturned(2) /\ IsOk(Unwrap(frames[1].ret)))
             \/ CollaboratorErrorPropagated))
    /\ (EntersResolver ~>
          ((frames[1].nextRuns = 1 /\ HasReturned(2)) \/ CollaboratorErrorPropagated))

\* C12 witness: a request whose account was not found was still answered by
\* the downstream stage.
C12_Witness ==
    /\ pc = "done"
    /\ ResolverAt(1)
    /\ lookup = Some(Ok(None))
    /\ frames[1].nextRuns = 1
    /\ HasReturned(2)

\* The authorization header is present and starts with exactly `Bearer `.
HasBearerHeader ==
    /\ IsSome(request.authorization)
    /\ Len(Unwrap(request.authorization)) >= 7
    /\ SubSeq(Unwrap(request.authorization), 1, 7) = <<"B", "e", "a", "r", "e", "r", " ">>
\* The header value with its first seven bytes removed.
AfterBearer ==
    SubSeq(Unwrap(request.authorization), 8, Len(Unwrap(request.authorization)))
\* Every byte of the authorization header is visible ASCII.
HeaderIsVisibleAscii ==
    \A i \in 1..Len(Unwrap(request.authorization)) :
        Unwrap(request.authorization)[i] # "\\xe9"
\* The resolver has extracted the credential with a session manager whose
\* extract_credential is Credential::from_authorization_header.
ExtractedFromHeader == Extracted /\ strategy = "header"

\* C13 as stated: from_authorization_header returns the header value without
\* its leading `Bearer ` if and only if the authorization header is present
\* and starts with exactly `Bearer `, and no credential otherwise.
C13_BearerIffPrefix ==
    ExtractedFromHeader =>
    credential = IF HasBearerHeader THEN Some(AfterBearer) ELSE None

\* C13 amended: from_authorization_header returns the header value without
\* its leading `Bearer ` if and only if the authorization header is present,
\* consists of visible ASCII only and starts with exactly `Bearer `; in every
\* other case it returns no credential, and the resolver goes on without an
\* error of its own.
C13_BearerIffAsciiPrefix ==
    ExtractedFromHeader =>
    /\ credential = IF HasBearerHeader /\ HeaderIsVisibleAscii
                    THEN Some(AfterBearer) ELSE None
    /\ ~IsSome(credential) => PassThroughUnauthenticated

\* C13 witness: the token after `Bearer ` was extracted as the credential.
C13_Witness ==
    /\ ExtractedFromHeader
    /\ request.authorization =
         Some(<<"B", "e", "a", "r", "e", "r", " ", "tok.u2">>)
    /\ credential = Some(<<"tok.u2">>)

\* The resolver has extracted the credential with a session manager whose
\* extract_credential is Credential::from_cookie on the session cookie.
ExtractedFromCookie == Extracted /\ strategy = "cookie"
\* v is the cookie value c without the one pair of double quotes around it,
\* if it has one, and c itself otherwise.
IsTrimmedValueOf(v, c) ==
    \/ c = <<"\"">> \o v \o <<"\"">>
    \/ v = c /\ ~(Len(c) >= 2 /\ c[1] = "\"" /\ c[Len(c)] = "\"")

\* C14: from_cookie returns the trimmed value of the session cookie whole as
\* the credential, a leading `Bearer ` included, when the cookie is in the
\* jar, and no credential when it is absent; in that case the resolver goes
\* on without an error of its own.
C14_CookieValueIsCredential ==
    ExtractedFromCookie =>
    /\ IsSome(credential) <=> IsSome(request.cookie)
    /\ IsSome(credential) =>
          IsTrimmedValueOf(Unwrap(credential), Unwrap(request.cookie))
    /\ ~IsSome(credential) => PassThroughUnauthenticated

\* C14 witness: a cookie value that starts with `Bearer ` was taken whole.
C14_Witness ==
    /\ ExtractedFromCookie
    /\ IsSome(request.cookie)
    /\ Len(Unwrap(request.cookie)) >= 7
    /\ SubSeq(Unwrap(request.cookie), 1, 7) = <<"B", "e", "a", "r", "e", "r", " ">>
    /\ credential = request.cookie

\* ------------------------------------------------------------ cipher properties
EncryptReturned == cpc # "start" /\ cpc # "off"
DecryptReturned == cpc = "decrypted"
\* decrypt was given the payload exactly as encrypt returned it.
DeliveredIntact ==
    /\ IsOk(Unwrap(encrypted))
    /\ encrypted_text = Unwrap(encrypted).val
\* decrypt was given the payload encrypt returned with one byte changed.
OneByteChanged ==
    /\ IsOk(Unwrap(encrypted))
    /\ Len(encrypted_text) = Len(Unwrap(encrypted).val)
    /\ Cardinality({i \in 1..Len(encrypted_text) :
                       encrypted_text[i] # Unwrap(encrypted).val[i]}) = 1
\* The place of the changed byte.
ChangedAt ==
    CHOOSE i \in 1..Len(encrypted_text) : encrypted_text[i] # Unwrap(encrypted).val[i]

C17_TamperDetected ==
    (DecryptReturned /\ OneByteChanged /\ dec_secret = enc_secret) =>
    Unwrap(decrypted).tag = "Err"

\* C17 witness: a byte within the cipher text of a non-empty plain text was
\* changed to another symbol of the alphabet, and decrypt reported the
\* failed decryption.
C17_Witness ==
    /\ DecryptReturned /\ OneByteChanged /\ dec_secret = enc_secret
    /\ plain_text = <<97, 97>>
    /\ ChangedAt = 18
    /\ encrypted_text[ChangedAt] \in 0..63
    /\ decrypted = Some(Err(ErrOther("Failed to decrypt!")))

\* C18 as stated: decrypt is total: whatever the payload and the secret, it
\* returns Ok or Err and never panics; a payload that decodes to fewer
\* than 12 bytes yields Err.
C18_DecryptIsTotal ==
    DecryptReturned =>
    /\ Unwrap(decrypted).tag \in {"Ok", "Err"}
    /\ (IsOk(BASE64_decode(encrypted_text))
        /\ Len(BASE64_decode(encrypted_text).val) < 12) =>
          Unwrap(decrypted).tag = "Err"

\* C19: key derivation: the key is the first 32 bytes of the secret. With a
\* secret of fewer than 32 bytes encrypt returns an error and no cipher
\* text, and decrypt returns an error and no plain text, whatever the
\* payload; an intact payload decrypts to its plain text exactly under the
\* secrets whose first 32 bytes are those of the secret it was encrypted with.
C19_KeyIsFirst32Bytes ==
    /\ (EncryptReturned /\ Len(enc_secret) < 32) =>
          Unwrap(encrypted).tag = "Err"
    /\ (DecryptReturned /\ Len(dec_secret) < 32) =>
          Unwrap(decrypted).tag = "Err"
    /\ (DecryptReturned /\ DeliveredIntact /\ Len(dec_secret) >= 32) =>
          (decrypted = Some(Ok(plain_text)))
          <=> (SubSeq(dec_secret, 1, 32) = SubSeq(enc_secret, 1, 32))

\* C19 witness: a payload encrypted with a secret of 32 bytes was decrypted
\* with a longer secret that starts with the same 32 bytes.
C19_Witness ==
    /\ DecryptReturned /\ DeliveredIntact
    /\ Len(enc_secret) = 32 /\ Len(dec_secret) = 33
    /\ plain_text # <<>>
    /\ decrypted = Some(Ok(plain_text))

\* C20 as stated: a single failure kind: when decrypt fails, its error is
\* the one it returns for every other failing payload and secret, be the
\* cause a short secret, malformed base64, a short payload or a tag that
\* does not verify.
C20_SingleFailureKind ==
    (DecryptReturned /\ ~IsOk(Unwrap(decrypted))) =>
    \A e \in CraftedPayloads, k \in Secrets :
        ~IsOk(decrypt_string_aes256_gcm(e, k)) =>
            decrypt_string_aes256_gcm(e, k) = Unwrap(decrypted)

\* ------------------------------------------------------------ authn properties
\* authn::authenticate is the outermost stage of the request's route.
AuthnAt1 == InRequest /\ layers[1] = "authn"
\* The request's credential is one token, signed with the verifier's secret,
\* of claim type "session", whose `exp` is age seconds before the
\* verifier's clock.
SessionTokenExpiredFor(age) ==
    /\ IsSome(credential)
    /\ Len(Unwrap(credential)) = 1
    /\ Unwrap(credential)[1] \in Tokens
    /\ LET d == TokenData[Unwrap(credential)[1]] IN
        /\ d.wellFormed /\ d.key = "k1"
        /\ d.sub # None
        /\ d.omn_cl_typ = Some("session")
        /\ d.exp = Some(Now - age)
\* The verifier got its secret and, if it asked for the user, a user.
CollaboratorsDeliver ==
    /\ secret = Some(Ok("k1"))
    /\ IsSome(lookup) => (IsOk(Unwrap(lookup)) /\ IsSome(Unwrap(lookup).val))
\* The response of the handler behind authn::authenticate.
HelloUser200 ==
    [status |-> 200, headers |-> <<>>,
     body |-> [json |-> FALSE, fields |-> << <<"text", <<"Hello, user!">> >> >>]]

\* C21: expiry with clock skew: a correctly signed session token whose `exp`
\* is 45 seconds before the verifier's clock verifies and the request is
\* answered 200 by the handler; one whose `exp` is 120 seconds before the
\* clock does not verify, and the request ends in the 401 without the
\* handler having run.
C21_ExpiryWithSkew ==
    (pc = "done" /\ AuthnAt1 /\ CollaboratorsDeliver) =>
    /\ SessionTokenExpiredFor(45) =>
          /\ IsOk(Unwrap(decoded))
          /\ frames[1].nextRuns = 1
          /\ response = Some(HelloUser200)
    /\ SessionTokenExpiredFor(120) =>
          /\ ~IsOk(Unwrap(decoded))
          /\ frames[1].nextRuns = 0
          /\ response = Some(Unauthorized401)

\* C21 witness: the token 45 seconds past its expiry was answered 200.
C21_Witness ==
    /\ pc = "done" /\ AuthnAt1 /\ CollaboratorsDeliver
    /\ SessionTokenExpiredFor(45)
    /\ request.authorization = Some(<<"tok.late">>)
    /\ Unwrap(response).status = 200

\* ------------------------------------------------------------ claims.rs properties
DecodeReturned == kpc = "decoded"
ExpiresInReturned == kpc = "expired"
\* The token fails on nothing but, possibly, its expiry.
ValidButForExpiry ==
    /\ jwt.wellFormed /\ jwt.key = decoding_key
    /\ IsSome(jwt.sub) /\ IsSome(jwt.exp) /\ IsSome(jwt.omn_cl_typ)

\* C22 as stated: decode_claims succeeds only when the verifier's clock is
\* before the token's expiry: a token whose `exp` is at or before the clock
\* does not decode.
C22_FailsAtOrAfterExpiry ==
    (DecodeReturned /\ IsSome(jwt.exp) /\ Unwrap(jwt.exp) <= Now) =>
    ~IsOk(Unwrap(claims_result))

\* C22 amended: decode_claims succeeds only when the verifier's clock is no
\* more than the leeway of 60 seconds past the token's expiry: a token whose
\* `exp` is more than 60 seconds before the clock does not decode, and one
\* that is valid otherwise decodes up to and including 60 seconds past it.
C22_FailsBeyondLeeway ==
    /\ (DecodeReturned /\ IsSome(jwt.exp) /\ Unwrap(jwt.exp) < Now - 60) =>
          ~IsOk(Unwrap(claims_result))
    /\ (DecodeReturned /\ ValidButForExpiry /\ Unwrap(jwt.exp) >= Now - 60) =>
          IsOk(Unwrap(claims_result))

\* C22 witness: a token 61 seconds past its expiry, valid otherwise, did not
\* decode.
C22_Witness ==
    /\ DecodeReturned /\ ValidButForExpiry
    /\ jwt.exp = Some(Now - 61)
    /\ Unwrap(claims_result) = Err(ErrOther("ExpiredSignature"))

\* C23: decode_claims fails for every token, also one signed with the
\* verifier's key, that lacks `sub` or lacks `exp`: no claims are returned.
C23_RequiresSubAndExp ==
    (DecodeReturned /\ (jwt.sub = None \/ jwt.exp = None)) =>
    Unwrap(claims_result).tag = "Err"

\* C23 witness: a token signed with the verifier's key, with a live `exp`
\* and the claim type, but without `sub`, did not decode.
C23_Witness ==
    /\ DecodeReturned
    /\ jwt.wellFormed /\ jwt.key = decoding_key
    /\ jwt.sub = None /\ jwt.exp = Some(Now + 60) /\ jwt.omn_cl_typ = Some("session")
    /\ Unwrap(claims_result).tag = "Err"

\* Seconds since the epoch of clock + duration, sub-second part dropped.
WholeSeconds ==
    clock.secs + duration.secs + (clock.ticks + duration.ticks) \div TicksPerSec

\* C24 as stated: expires_in returns the whole seconds since the epoch of
\* now + duration, and it fails, with an error value and neither a panic
\* nor a wrapped value, exactly when the clock is before the epoch, or the
\* sum overflows, or the sum does not fit the result type.
C24_ExpiresInErrsOnOverflow ==
    ExpiresInReturned =>
    LET fails == \/ clock.before_epoch
                 \/ WholeSeconds > SecsMax
                 \/ WholeSeconds > 2 ^ usize_bits - 1
    IN /\ fails => Unwrap(expiry).tag = "Err"
       /\ ~fails => Unwrap(expiry) = Ok(WholeSeconds)

\* ------------------------------------------------------------ rejection and errors
\* The route is protected: a resolver, then its enforcer, then the handler.
ProtectedRoute ==
    InRequest /\ layers[1] \in Resolvers /\ Len(layers) = 3 /\ layers[2] \in Enforcers
\* The causes of a rejection: no credential; a token that does not decode
\* (malformed, bad signature, expired); a claim type other than "session";
\* an account the lookup does not know.
NoCredentialCause == ~IsSome(credential)
UndecodableCause == IsSome(credential) /\ DecodeFailed
WrongTypeCause == IsSome(credential) /\ WrongClaimType
UnknownAccountCause == lookup = Some(Ok(None))
RejectionCause ==
    NoCredentialCause \/ UndecodableCause \/ WrongTypeCause \/ UnknownAccountCause

\* C25: uniform rejection: on a protected route the response to a request
\* without a credential, with a token that does not decode, with a claim
\* type other than "session" or with an unknown account is the one 401 with
\* reason "Unauthorized" and detail null, produced by the enforcer; it
\* equals the response the same route gave the last request that carried no
\* credential.
C25_UniformRejection ==
    (pc = "done" /\ ProtectedRoute /\ RejectionCause) =>
    /\ response = Some(Unauthorized401)
    /\ frames[2].ret = Some(Err(ErrJsonResponse(of_status(401))))
    /\ (IsSome(baseline) /\ Unwrap(baseline).layers = layers) =>
          Unwrap(baseline).response = response

\* C25 witness: an unknown account was answered after a request without a
\* credential on the same route.
C25_Witness ==
    /\ pc = "done" /\ ProtectedRoute
    /\ UnknownAccountCause
    /\ IsSome(baseline) /\ Unwrap(baseline).layers = layers
    /\ response = Some(Unauthorized401)

\* Stage i returned an error to its caller.
StageErr(i) == HasReturned(i) /\ ~IsOk(Unwrap(frames[i].ret))
\* The error stage i returned.
ErrOf(i) == Unwrap(frames[i].ret).err
\* The error is a boxed JsonResponse<JsonStatus>.
IsJsonResponseError(e) == e.type = "JsonResponse<JsonStatus>"
\* A collaborator of authn::authenticate (session_secret, user_lookup)
\* returned an error.
AuthnCollaboratorFailed ==
    \/ IsSome(secret) /\ ~IsOk(Unwrap(secret))
    \/ LookupFailed

\* C26: an error of a handler or of a middleware that is not itself a
\* JsonResponse<JsonStatus> (a backend failure of the account lookup, for
\* one) is answered 500 with body reason "Internal Server Error" and detail
\* null: nothing of the error's text is in the response.
C26_InternalErrorIsGeneric500 ==
    pc = "done" =>
    /\ \A i \in 1..Len(layers) :
          (StageErr(i) /\ ~IsJsonResponseError(ErrOf(i))) =>
              response = Some(Internal500)
    /\ (layers[1] \in Resolvers /\ LookupFailed
            /\ ~IsJsonResponseError(Unwrap(lookup).err)) =>
          response = Some(Internal500)
    /\ (layers[1] = "authn" /\ AuthnCollaboratorFailed) =>
          response = Some(Internal500)

\* C26 witness: the handler's `Err(anyhow!(..))?` was answered with the
\* generic 500.
C26_Witness ==
    /\ pc = "done"
    /\ layers[1] = "json_handler"
    /\ StageErr(1)
    /\ ErrOf(1).type = "An unhandled error was propagated!"
    /\ response = Some(Internal500)

\* C27: when the error a handler (or a middleware) returns is a
\* JsonResponse<JsonStatus>, as of_status(code).with_detail(d) is, the
\* response has that status code and the body {reason: the canonical reason
\* of code, detail: d}; it is not turned into a 500.
C27_JsonResponseErrorKeepsItsStatus ==
    pc = "done" =>
    \A i \in 1..Len(layers) :
        (StageErr(i) /\ IsJsonResponseError(ErrOf(i))) =>
            LET boxed == Unwrap(ErrOf(i).payload) IN
            /\ Unwrap(response).status = boxed.code
            /\ Unwrap(response).body.json
            /\ Unwrap(response).body.fields =
                 << <<"reason", canonical_reason(boxed.code)>>,
                    <<"detail", boxed.body.detail>> >>

\* C27 witness: the handler's map_err to 418 with detail was answered 418
\* with that detail.
C27_Witness ==
    /\ pc = "done"
    /\ layers[1] = "json_handler"
    /\ StageErr(1)
    /\ Unwrap(response).status = 418
    /\ Unwrap(response).body.fields =
         << <<"reason", <<"I'm a teapot">> >>,
            <<"detail", <<"Handled with detail.">> >> >>

\* ------------------------------------------------------------ authn::authenticate
\* The content of the request's credential, if it is one token.
CredentialToken == TokenData[Unwrap(credential)[1]]
\* The request has a credential and it is a token that verifies under the
\* session secret: three parts, signed with the secret, `sub`, `exp` and
\* the claim type present, not expired beyond the leeway.
AuthnTokenDecodes ==
    /\ IsSome(credential)
    /\ Len(Unwrap(credential)) = 1
    /\ Unwrap(credential)[1] \in Tokens
    /\ CredentialToken.wellFormed
    /\ CredentialToken.key = "k1"
    /\ IsSome(CredentialToken.sub)
    /\ IsSome(CredentialToken.exp)
    /\ IsSome(CredentialToken.omn_cl_typ)
    /\ Unwrap(CredentialToken.exp) >= Now - Leeway
\* The verified token is of claim type "session".
AuthnTypeIsSession == CredentialToken.omn_cl_typ = Some("session")
\* user_lookup was called and returned a user.
UserFound ==
    IsSome(lookup) /\ IsOk(Unwrap(lookup)) /\ IsSome(Unwrap(lookup).val)
\* user_lookup was called and knows no such user.
UserUnknown == lookup = Some(Ok(None))

\* C28: authn::authenticate runs the downstream handler, once and with the
\* looked-up user attached, if and only if the request has a credential, the
\* credential decodes to valid claims, the claim type is "session" and
\* user_lookup returns a user. Without a credential, with a token that does
\* not decode (malformed, forged, expired), with another claim type and
\* with an unknown user the request is answered 401 with body reason
\* "Unauthorized" and detail null, and downstream is not run.
C28_AuthnRunsDownstreamIff ==
    (pc = "done" /\ layers[1] = "authn") =>
    /\ frames[1].nextRuns \in {0, 1}
    /\ frames[1].nextRuns = 1 <=>
          (AuthnTokenDecodes /\ AuthnTypeIsSession /\ UserFound)
    /\ frames[1].nextRuns = 1 =>
          /\ request.extensions = Unwrap(lookup).val
          /\ frames[2].ext = Unwrap(lookup).val
          /\ response = Some(HelloUser200)
    /\ (~AuthnCollaboratorFailed /\
          (~AuthnTokenDecodes \/ ~AuthnTypeIsSession \/ UserUnknown)) =>
          /\ response = Some(Unauthorized401)
          /\ frames[1].nextRuns = 0
          /\ frames[2] = EmptyFrame
          /\ ~IsSome(request.extensions)

\* C28 witness: a session token of a user the lookup found was let through.
C28_Witness ==
    /\ pc = "done" /\ layers[1] = "authn"
    /\ AuthnTokenDecodes /\ AuthnTypeIsSession /\ UserFound
    /\ frames[1].nextRuns = 1
    /\ frames[2].ret = Some(Ok(HelloUser200))

\* ------------------------------------------------------------ cancellation properties
\* get_account was called and has not returned.
LookupInFlight ==
    /\ calls # <<>>
    /\ calls[Len(calls)].fn = "get_account"
    /\ ~IsSome(lookup)
\* The stage at depth, the one suspended, never ran next: no stage after it
\* was entered.
DownstreamNeverRun ==
    /\ frames[depth].nextRuns = 0
    /\ \A i \in (depth + 1)..MaxLayers : frames[i] = EmptyFrame

\* C29: cancellation safety. A request cancelled while the account lookup is
\* in flight has had no account attached by the resolver (its context is the
\* one the resolver was entered with, empty when the resolver is the
\* outermost stage) and downstream was not run for it, and nothing happens
\* to a cancelled request but its being dropped; an account is attached to
\* a request only once get_account has returned Some(account), and it is
\* that account.
C29_CancelledLookupAttachesNothing ==
    /\ []((pc = "cancelled" /\ LookupInFlight) =>
            /\ request.extensions = frames[depth].ext
            /\ depth = 1 => ~IsSome(request.extensions)
            /\ DownstreamNeverRun)
    /\ [][pc = "cancelled" =>
            /\ pc' = "idle"
            /\ ~IsSome(request'.extensions)
            /\ \A i \in 1..MaxLayers : frames'[i] = EmptyFrame]_vars
    /\ []((InRequest /\ layers[1] \in Resolvers /\ IsSome(request.extensions)) =>
            lookup = Some(Ok(request.extensions)))

\* C29 witness: a request was cancelled while resolve awaited get_account.
C29_Witness ==
    /\ pc = "cancelled"
    /\ layers[1] = "resolve"
    /\ LookupInFlight

\* ------------------------------------------------------------ stage ordering
\* Every call the resolver made of a collaborator has returned.
AllCallsAnswered ==
    \A k \in 1..Len(calls) :
        /\ calls[k].fn = "decode_claims" => IsSome(decoded)
        /\ calls[k].fn = "get_service_secret" => IsSome(secret)
        /\ calls[k].fn = "get_account" => IsSome(lookup)
\* The resolver is still at work: next was not run, no later stage entered.
ResolverAtWork == depth = 1 /\ pc \notin {"returned", "done"}

\* C30: within one request the stages come in the order extract, decode,
\* validate type, lookup, attach, enforce. Claims are decoded only from an
\* extracted credential; get_account is called only once the claims decoded
\* and their type was found to be "session", with their subject, and is the
\* resolver's last call; an account is attached only when the lookup
\* returned it; the enforcer and what follows it are entered only when the
\* resolver has run next, with all its calls answered, and see what the
\* resolver attached; while the resolver is at work no later stage has been
\* entered.
C30_StagesInOrder ==
    (InRequest /\ ResolverAt(1)) =>
    /\ IsSome(decoded) => IsSome(credential)
    /\ \A k \in 1..Len(calls) :
          calls[k].fn = "get_account" =>
              /\ k = Len(calls)
              /\ IsSome(decoded)
              /\ IsOk(Unwrap(decoded))
              /\ Unwrap(decoded).val.omn_cl_typ = "session"
              /\ calls[k].arg = Unwrap(decoded).val.sub
    /\ IsSome(lookup) => \E k \in 1..Len(calls) : calls[k].fn = "get_account"
    /\ IsSome(request.extensions) => lookup = Some(Ok(request.extensions))
    /\ depth >= 2 =>
          /\ frames[1].nextRuns = 1
          /\ AllCallsAnswered
          /\ frames[2].ext = request.extensions
    /\ ResolverAtWork =>
          /\ frames[1].nextRuns = 0
          /\ \A i \in 2..MaxLayers : frames[i] = EmptyFrame

\* C30 witness: the enforcer is entered after the resolver extracted,
\* decoded, looked up and attached the account.
C30_Witness ==
    /\ layers = <<"resolve", "authorize", "handler">>
    /\ pc = "enter" /\ depth = 2
    /\ Len(calls) = 2
    /\ IsSome(lookup) /\ IsOk(Unwrap(lookup)) /\ IsSome(Unwrap(lookup).val)
    /\ request.extensions = Unwrap(lookup).val

\* ------------------------------------------------------------ concurrent requests: properties
\* The subject of the claims in request r's authorization header, if any.
SubjectOfRequest(r) ==
    LET h == tasks[r].authorization IN
    IF IsSome(h) /\ Len(Unwrap(h)) = Len(BearerPrefix) + 1
          /\ SubSeq(Unwrap(h), 1, Len(BearerPrefix)) = BearerPrefix
          /\ Unwrap(h)[Len(BearerPrefix) + 1] \in Tokens
    THEN TokenData[Unwrap(h)[Len(BearerPrefix) + 1]].sub
    ELSE None
\* Request r has the account a attached.
Attached(r, a) == tasks[r].extensions = Some(a)

\* C31: statelessness across requests. Under every interleaving of the
\* requests' tasks no step writes the shared session manager, a step of one
\* request's task changes nothing of another request, and the account
\* attached to a request is what the manager's store holds for the subject
\* of that request's own credential.
C31_NoCrossTalk ==
    /\ [][manager' = manager]_conc_vars
    /\ [][\A r, q \in RequestIds :
            (r # q /\ tasks'[r] # tasks[r]) => tasks'[q] = tasks[q]]_conc_vars
    /\ [](\A r \in RequestIds : \A a \in Accounts :
            Attached(r, a) =>
                /\ IsSome(SubjectOfRequest(r))
                /\ manager[Unwrap(SubjectOfRequest(r))] = Ok(Some(a)))

\* C31 witness: two requests of different subjects were in flight together
\* and each got the account of its own subject.
C31_Witness ==
    /\ tasks[1].pc = "authorize" /\ tasks[2].pc = "get_account"
    /\ SubjectOfRequest(1) = Some("u1") /\ SubjectOfRequest(2) = Some("u2")
    /\ Attached(1, "acct1")
    /\ manager["u2"] = Ok(Some("acct2"))

\* ------------------------------------------------------------ issued tokens
\* create_session returned a token.
Issued == IsSome(issued) /\ IsOk(Unwrap(issued))
\* The issue time plus the duration, in whole seconds.
IssueTimePlusDuration ==
    (clock.secs * TicksPerSec + clock.ticks + duration.secs * TicksPerSec + duration.ticks)
        \div TicksPerSec
\* The claims create_session was asked to issue.
IssuedClaims ==
    [sub |-> account_id, exp |-> IssueTimePlusDuration, omn_cl_typ |-> "session"]

\* C32: a token issued by create_session(account_id, key, duration) is
\* signed with key and carries sub = account_id, exp = issue time +
\* duration (in whole seconds) and the claim type "session"; presented
\* before its expiry and decoded with the same secret it decodes to those
\* claims, which pass the resolver's claim-type check.
C32_IssuedTokenIsSessionToken ==
    Issued =>
    /\ Unwrap(issued).val =
          [wellFormed |-> TRUE, key |-> encoding_key, sub |-> Some(account_id),
           exp |-> Some(IssueTimePlusDuration), omn_cl_typ |-> Some("session")]
    /\ (kpc = "presented" /\ decoding_key = encoding_key
            /\ Unwrap(presented_at) < IssueTimePlusDuration) =>
          /\ claims_result = Some(Ok(IssuedClaims))
          /\ Unwrap(claims_result).val.omn_cl_typ = SESSION_CLAIMS_TYPE

\* C32 witness: a session issued for a positive duration was presented
\* before its expiry and decoded with the key it was signed with.
C32_Witness ==
    /\ kpc = "presented" /\ Issued
    /\ decoding_key = encoding_key
    /\ duration.secs > 0
    /\ Unwrap(presented_at) < IssueTimePlusDuration
    /\ claims_result = Some(Ok(IssuedClaims))

\* ------------------------------------------------------------ signature binding
\* The stage at the front decodes the credential itself, with the secret it
\* got from its collaborator.
VerifierAt1 == InRequest /\ layers[1] \in {"decorate", "authn"}
\* The credential is a token that encode_claims did not produce with the
\* secret the verifier got: it was signed with another secret, or altered
\* after signing.
NotSignedWithSecret ==
    /\ IsSome(credential)
    /\ Len(Unwrap(credential)) = 1
    /\ Unwrap(credential)[1] \in Tokens
    /\ IsSome(secret)
    /\ IsOk(Unwrap(secret))
    /\ TokenData[Unwrap(credential)[1]].key # Unwrap(secret).val

\* C33: signature binding. A token that was not produced by encode_claims
\* with the verifier's secret (signed with a different secret, or altered
\* after signing) does not decode, so through the resolver it causes no
\* lookup and no account is attached.
C33_SignatureBinding ==
    (VerifierAt1 /\ NotSignedWithSecret) =>
    /\ IsSome(decoded)
    /\ ~IsOk(Unwrap(decoded))
    /\ NeverCalled("get_account")
    /\ NeverCalled("user_lookup")
    /\ ~IsSome(lookup)
    /\ ~IsSome(request.extensions)
    /\ \A i \in 1..MaxLayers : ~IsSome(frames[i].ext)

\* C33 witness: a token signed with another secret went through decorate
\* and the request was answered 401 by the enforcer.
C33_Witness ==
    /\ pc = "done"
    /\ layers = <<"decorate", "authenticate", "handler">>
    /\ NotSignedWithSecret
    /\ Unwrap(credential) = <<"tok.forged">>
    /\ response = Some(Unauthorized401)

\* ------------------------------------------------------------ authn: cookie before header
\* authn::authenticate has extracted the credential.
AuthnExtracted == AuthnAt1 /\ ~(pc = "enter" /\ depth = 1)
\* The string s is a session token that verifies under the session secret.
VerifiesAsSession(s) ==
    /\ Len(s) = 1
    /\ s[1] \in Tokens
    /\ TokenData[s[1]].wellFormed
    /\ TokenData[s[1]].key = "k1"
    /\ IsSome(TokenData[s[1]].sub)
    /\ IsSome(TokenData[s[1]].exp)
    /\ Unwrap(TokenData[s[1]].exp) >= Now - Leeway
    /\ TokenData[s[1]].omn_cl_typ = Some("session")
\* The request has a session cookie whose token does not verify, and an
\* authorization header that is a token which does.
BadCookieGoodHeader ==
    /\ IsSome(request.cookie)
    /\ ~VerifiesAsSession(value_trimmed(Unwrap(request.cookie)))
    /\ IsSome(request.authorization)
    /\ VerifiesAsSession(Unwrap(request.authorization))

\* C34: first match wins by presence. The credential of authn::authenticate
\* is the value of the session cookie whenever the cookie is present, and
\* the value of the authorization header only when the cookie is absent; a
\* request whose cookie's token does not verify is rejected with 401,
\* downstream not run, even when the header holds a token that verifies.
C34_CookieFirstByPresence ==
    AuthnExtracted =>
    /\ IsSome(request.cookie) =>
          credential = Some(value_trimmed(Unwrap(request.cookie)))
    /\ ~IsSome(request.cookie) =>
          credential = IF IsSome(request.authorization)
                       THEN to_str(Unwrap(request.authorization))
                       ELSE None
    /\ (pc = "done" /\ BadCookieGoodHeader /\ ~AuthnCollaboratorFailed) =>
          /\ response = Some(Unauthorized401)
          /\ frames[1].nextRuns = 0
          /\ ~IsSome(request.extensions)

\* C34 witness: a refresh token in the cookie and a session token in the
\* header: the request was rejected.
C34_Witness ==
    /\ pc = "done" /\ AuthnAt1
    /\ BadCookieGoodHeader
    /\ request.cookie = Some(<<"\"", "tok.refresh", "\"">>)
    /\ request.authorization = Some(<<"tok.u1">>)
    /\ response = Some(Unauthorized401)

\* ------------------------------------------------------------ runs of downstream
\* A collaborator the resolver awaited (get_account, and decorate's
\* get_service_secret) returned an error.
CollaboratorFailed ==
    \/ LookupFailed
    \/ IsSome(secret) /\ ~IsOk(Unwrap(secret))

\* C35: the resolver (resolve, decorate) runs the downstream stage at most
\* once on every path; when it has returned Ok it ran it exactly once; and
\* it has returned without running it exactly when a collaborator call
\* returned an error, which is then what it returned.
C35_DownstreamAtMostOnce ==
    (InRequest /\ ResolverAt(1)) =>
    /\ frames[1].nextRuns \in {0, 1}
    /\ HasReturned(1) =>
          /\ IsOk(Unwrap(frames[1].ret)) => frames[1].nextRuns = 1
          /\ frames[1].nextRuns = 0 <=> CollaboratorFailed
          /\ frames[1].nextRuns = 0 => ~IsOk(Unwrap(frames[1].ret))

\* C35 witness: decorate found no account for the subject and returned Ok
\* after its one run of downstream.
C35_Witness ==
    /\ layers[1] = "decorate"
    /\ HasReturned(1)
    /\ lookup = Some(Ok(None))
    /\ frames[1].nextRuns = 1
    /\ IsOk(Unwrap(frames[1].ret))

\* ------------------------------------------------------------ frame condition
\* The resolver at stage i has run next on a pass-through path: there was
\* no credential, the claims did not decode, their type was not "session",
\* or the lookup found no account.
ForwardedUnresolved(i) ==
    /\ ResolverAt(i)
    /\ frames[i].nextRuns = 1
    /\ \/ ~IsSome(credential)
       \/ IsSome(decoded) /\ ~IsOk(Unwrap(decoded))
       \/ IsSome(decoded) /\ IsOk(Unwrap(decoded))
            /\ Unwrap(decoded).val.omn_cl_typ # "session"
       \/ lookup = Some(Ok(None))
\* The enforcer at stage i has made its check.
EnforcerActed(i) == depth > i \/ HasReturned(i)

\* C36: frame condition of resolution. On every pass-through path the
\* resolver hands downstream the request with the extensions it was entered
\* with: nothing is attached, removed or replaced. An account that was
\* attached before the resolver ran is therefore still attached, and the
\* enforcer behind the resolver lets the request through.
C36_PassThroughKeepsContext ==
    InRequest =>
    \A i \in 1..(Len(layers) - 1) :
        ForwardedUnresolved(i) =>
            /\ frames[i + 1].ext = frames[i].ext
            /\ request.extensions = frames[i].ext
            /\ (IsSome(frames[i].ext) /\ layers[i + 1] \in Enforcers
                    /\ EnforcerActed(i + 1)) =>
                  /\ frames[i + 1].nextRuns = 1
                  /\ frames[i + 2].ext = frames[i].ext

\* C36 witness: a request with an account attached upstream and no
\* credential went through resolve and authorize to the handler.
C36_Witness ==
    /\ pc = "done"
    /\ layers = <<"upstream", "resolve", "authorize", "handler">>
    /\ ~IsSome(credential)
    /\ frames[2].ext = Some("acct1")
    /\ frames[4].ext = Some("acct1")
    /\ Unwrap(response).status = 200

\* ------------------------------------------------------------ cipher key
\* Both secrets are long enough for a key.
BothSecretsLongEnough == Len(enc_secret) >= 32 /\ Len(dec_secret) >= 32
\* The two secrets start with the same 32 bytes.
SameFirst32 == SubSeq(enc_secret, 1, 32) = SubSeq(dec_secret, 1, 32)

\* C37: the cipher key depends on the first 32 bytes of the secret only.
\* For secrets S1 and S2 of at least 32 bytes with the same first 32 bytes,
\* encrypt gives under S2 the payload it gives under S1 (for the same
\* nonce) and decrypt(encrypt(P, S1), S2) returns P; for secrets whose
\* first 32 bytes differ, decrypt(encrypt(P, S1), S2) fails with an error.
C37_KeyDependsOnFirst32Only ==
    /\ (cpc = "encrypted" /\ Len(enc_secret) >= 32) =>
          \A s2 \in Secrets :
              (Len(s2) >= 32 /\ SubSeq(s2, 1, 32) = SubSeq(enc_secret, 1, 32)) =>
                  /\ encrypt_string_aes256_gcm(plain_text, s2, Unwrap(nonce)) =
                        Unwrap(encrypted)
                  /\ decrypt_string_aes256_gcm(Unwrap(encrypted).val, s2) =
                        Ok(plain_text)
    /\ (DecryptReturned /\ DeliveredIntact /\ BothSecretsLongEnough) =>
          IF SameFirst32
          THEN decrypted = Some(Ok(plain_text))
          ELSE Unwrap(decrypted).tag = "Err"

\* C37 witness: a payload encrypted under a secret of 33 bytes was
\* decrypted under the 32 bytes it starts with.
C37_Witness ==
    /\ DecryptReturned /\ DeliveredIntact
    /\ Len(enc_secret) = 33 /\ Len(dec_secret) = 32
    /\ SameFirst32
    /\ plain_text # <<>>
    /\ decrypted = Some(Ok(plain_text))

\* ------------------------------------------------------------ decorate and the service secret
\* decorate is the outermost stage and has extracted the credential.
DecorateExtracted ==
    InRequest /\ layers[1] = "decorate" /\ ~(pc = "enter" /\ depth = 1)
\* get_service_secret returned an error.
SecretFailed == IsSome(secret) /\ ~IsOk(Unwrap(secret))
\* What holds of the secret in decorate whatever the error is: it is asked
\* for only with a credential; its failure is what decorate returns, with
\* nothing decoded, looked up, attached or run; without a credential it is
\* never asked for and downstream runs.
SecretOnlyWithCredential ==
    /\ ~NeverCalled("get_service_secret") => IsSome(credential)
    /\ IsSome(secret) => ~NeverCalled("get_service_secret")
    /\ SecretFailed =>
          /\ frames[1].ret = Some(Err(Unwrap(secret).err))
          /\ frames[1].nextRuns = 0
          /\ frames[2] = EmptyFrame
          /\ ~IsSome(decoded)
          /\ NeverCalled("get_account")
          /\ ~IsSome(request.extensions)
    /\ ~IsSome(credential) =>
          /\ NeverCalled("get_service_secret")
          /\ ~IsSome(secret)
          /\ frames[1].nextRuns = 1

\* C38 as stated: in decorate the secret is retrieved only when a credential
\* was extracted; a failure of get_service_secret is answered 500, with no
\* account attached and downstream not run; without a credential the secret
\* is never asked for and downstream runs.
C38_SecretFailureIs500 ==
    DecorateExtracted =>
    /\ SecretOnlyWithCredential
    /\ (pc = "done" /\ SecretFailed) => Unwrap(response).status = 500

\* C38 amended: the same, the failure being answered 500 with reason
\* "Internal Server Error" and detail null unless the error is itself a
\* JsonResponse<JsonStatus>, which is answered as that response.
C38_SecretFailurePropagates ==
    DecorateExtracted =>
    /\ SecretOnlyWithCredential
    /\ (pc = "done" /\ SecretFailed) =>
          IF Unwrap(secret).err.type = "JsonResponse<JsonStatus>"
          THEN response = Some(JsonResponse_into_response(
                                   Unwrap(Unwrap(secret).err.payload)))
          ELSE response = Some(Internal500)

\* C38 witness: the secret store failed and the request was answered 500.
C38_Witness ==
    /\ pc = "done"
    /\ layers[1] = "decorate"
    /\ secret = Some(Err(ErrOther("secret store")))
    /\ response = Some(Internal500)

\* ------------------------------------------------------------ status and body
\* C39 as stated: status-body consistency: after of_status(code) and any
\* sequence of with_status, with_detail, with_headers and append_header
\* calls, the reason in the body is the canonical reason of the response's
\* status code.
C39_ReasonMatchesStatus ==
    IsSome(built) =>
        Unwrap(built).body.reason = canonical_reason(Unwrap(built).code)

====
